---------------------------- MODULE Spec2Model ----------------------------
(***************************************************************************)
(* A model of the Telegram calendar bot of src/index.ts (lines 1-662, the  *)
(* current variant of the program): the per-chat proposal session          *)
(* (pendingEvents), the account registry (oauthAccounts), the disabled     *)
(* calendars, the pending authorizations, the auth cache file, and the     *)
(* message / callback_query / oauth2callback handlers, each split at the   *)
(* awaits where the handler really suspends.                               *)
(*                                                                         *)
(* Strings are sequences of one-character strings, so that parseInt,       *)
(* trim, split, indexOf and substring are computed as JavaScript computes  *)
(* them.                                                                   *)
(***************************************************************************)
EXTENDS Integers, Sequences, FiniteSets, TLC

----------------------------------------------------------------------------
(* Bounds of the model.                                                    *)

\* accounts one chat may connect (guard of the oauth2callback)
MaxAccounts == 2
\* successful /edit rounds within one session (guard of /edit)
MaxEdits == 2
\* OAuth2Client objects /auth may create (guard of /auth)
MaxClients == 2
\* handlers in flight at the same time (guard of every handler's start)
MaxInFlight == 2

\* An optional value (a Map entry that may be missing, an undefined local) is
\* a sequence of length 0 or 1.
Absent == <<>>
Some(v) == <<v>>
Has(o) == o # <<>>
Get(o) == o[1]

----------------------------------------------------------------------------
(* JavaScript strings.                                                     *)

Digits == {"0", "1", "2", "3", "4", "5", "6", "7", "8", "9"}

DigitVal(ch) ==
  CASE ch = "0" -> 0 [] ch = "1" -> 1 [] ch = "2" -> 2 [] ch = "3" -> 3
    [] ch = "4" -> 4 [] ch = "5" -> 5 [] ch = "6" -> 6 [] ch = "7" -> 7
    [] ch = "8" -> 8 [] ch = "9" -> 9

Whitespace == {" ", "\n"}

RECURSIVE TrimStart(_)
TrimStart(s) ==
  IF s # <<>> /\ Head(s) \in Whitespace THEN TrimStart(Tail(s)) ELSE s

RECURSIVE TrimEnd(_)
TrimEnd(s) ==
  IF s # <<>> /\ s[Len(s)] \in Whitespace
  THEN TrimEnd(SubSeq(s, 1, Len(s) - 1)) ELSE s

\* the text taken as it is
Untrimmed(s) == s

\* String.prototype.trim
Trim(s) == TrimEnd(TrimStart(s))

\* String.prototype.indexOf(ch): 0-based, -1 when ch does not occur
IndexOf(s, ch) ==
  IF \E i \in 1..Len(s) : s[i] = ch
  THEN (CHOOSE i \in 1..Len(s) : s[i] = ch /\ \A j \in 1..(i - 1) : s[j] # ch) - 1
  ELSE -1

\* String.prototype.lastIndexOf(ch): 0-based, -1 when ch does not occur
LastIndexOf(s, ch) ==
  IF \E i \in 1..Len(s) : s[i] = ch
  THEN (CHOOSE i \in 1..Len(s) : s[i] = ch /\ \A j \in (i + 1)..Len(s) : s[j] # ch) - 1
  ELSE -1

\* a substring that stops one character early
SubstringShort(s, from, to) == SubSeq(s, from + 1, to - 1)

\* String.prototype.substring(from, to), 0-based, to exclusive
Substring(s, from, to) == SubSeq(s, from + 1, to)

\* String.prototype.split(' ') followed by .filter(x => x.trim().length > 0)
RECURSIVE SplitSpaces(_, _)
SplitSpaces(s, cur) ==
  IF s = <<>> THEN <<cur>>
  ELSE IF Head(s) = " " THEN <<cur>> \o SplitSpaces(Tail(s), <<>>)
  ELSE SplitSpaces(Tail(s), Append(cur, Head(s)))

Parts(args) == SelectSeq(SplitSpaces(args, <<>>), LAMBDA x : Len(Trim(x)) > 0)

\* the value of a non-empty sequence of decimal digits
RECURSIVE DigitsValue(_)
DigitsValue(d) ==
  IF d = <<>> THEN 0
  ELSE 10 * DigitsValue(SubSeq(d, 1, Len(d) - 1)) + DigitVal(d[Len(d)])

RECURSIVE DigitsPrefix(_)
DigitsPrefix(s) ==
  IF s # <<>> /\ Head(s) \in Digits THEN <<Head(s)>> \o DigitsPrefix(Tail(s)) ELSE <<>>

NaN == [nan |-> TRUE, val |-> 0]

\* parseInt(s): leading whitespace and one sign are skipped, then the longest
\* prefix of decimal digits is read; NaN when there is none.  What follows
\* the digits is ignored ("1a" parses as 1).
ParseInt(s) ==
  LET t == TrimStart(s)
      signed == t # <<>> /\ Head(t) \in {"-", "+"}
      u == IF signed THEN Tail(t) ELSE t
      d == DigitsPrefix(u)
  IN IF d = <<>> THEN NaN
     ELSE [nan |-> FALSE,
           val |-> IF signed /\ Head(t) = "-" THEN 0 - DigitsValue(d) ELSE DigitsValue(d)]

\* the decimal string of a natural number below 100
ToStr(n) ==
  LET ch(k) == CHOOSE c \in Digits : DigitVal(c) = k
  IN IF n < 10 THEN <<ch(n)>> ELSE <<ch(n \div 10), ch(n % 10)>>

----------------------------------------------------------------------------
(* Text generation and JSON extraction.                                    *)

\* an extraction that knows arrays only
ExtractJSONArraysOnly(response) ==
  IF IndexOf(response, "[") # -1 /\ LastIndexOf(response, "]") > IndexOf(response, "[")
  THEN [threw |-> FALSE,
        text |-> Substring(response, IndexOf(response, "["), LastIndexOf(response, "]") + 1)]
  ELSE [threw |-> TRUE, text |-> <<>>]

\* extractJSON: the text from the first "[" to the last "]" when the last "]"
\* lies after the first "["; otherwise from the first "{" to the last "}";
\* otherwise the Error of line 221.
ExtractJSON(response) ==
  LET firstBracket == IndexOf(response, "[")
      lastBracket == LastIndexOf(response, "]")
      firstBrace == IndexOf(response, "{")
      lastBrace == LastIndexOf(response, "}")
  IN IF firstBracket # -1 /\ lastBracket # -1 /\ lastBracket > firstBracket
     THEN [threw |-> FALSE, text |-> Substring(response, firstBracket, lastBracket + 1)]
     ELSE IF firstBrace = -1 \/ lastBrace = -1 \/ lastBrace <= firstBrace
     THEN [threw |-> TRUE, text |-> <<>>]
     ELSE [threw |-> FALSE, text |-> Substring(response, firstBrace, lastBrace + 1)]

\* The objects the generated text may hold.  An object literal is written
\* "{" b "}" with b one of these letters; the letter stands for the object's
\* members.  accountId 0 and calendar <<>> are the falsy values of a member
\* that is missing.
Primary == <<"p", "r", "i", "m", "a", "r", "y">>
CalA == <<"a">>
CalB == <<"b">>

ObjectOf(b) ==
  CASE b = "k" -> [title |-> "k", accountId |-> 1, calendar |-> CalA]
    [] b = "m" -> [title |-> "m", accountId |-> 2, calendar |-> <<>>]
    [] b = "n" -> [title |-> "n", accountId |-> 0, calendar |-> <<"1">>]

ObjectLetters == {"k", "m", "n"}

\* the elements of a JSON array body: object literals separated by ","
RECURSIVE ParseElements(_)
ParseElements(t) ==
  IF Len(t) >= 3 /\ t[1] = "{" /\ t[2] \in ObjectLetters /\ t[3] = "}"
  THEN IF Len(t) = 3 THEN [threw |-> FALSE, items |-> <<ObjectOf(t[2])>>]
       ELSE IF t[4] = "," /\ Len(t) > 4
       THEN LET rest == ParseElements(SubSeq(t, 5, Len(t)))
            IN IF rest.threw THEN rest
               ELSE [threw |-> FALSE, items |-> <<ObjectOf(t[2])>> \o rest.items]
       ELSE [threw |-> TRUE, items |-> <<>>]
  ELSE [threw |-> TRUE, items |-> <<>>]

NoValue == [kind |-> "none", items |-> <<>>]

\* JSON.parse on the texts of this model: white space between tokens is
\* skipped; "[" elements "]" is an array, "{" b "}" an object, anything
\* else a SyntaxError.
JSONParse(text) ==
  LET t == SelectSeq(text, LAMBDA c : c \notin Whitespace)
      n == Len(t)
  IN IF n = 3 /\ t[1] = "{" /\ t[2] \in ObjectLetters /\ t[3] = "}"
     THEN [threw |-> FALSE, value |-> [kind |-> "object", items |-> <<ObjectOf(t[2])>>]]
     ELSE IF n >= 2 /\ t[1] = "[" /\ t[n] = "]"
     THEN IF n = 2 THEN [threw |-> FALSE, value |-> [kind |-> "array", items |-> <<>>]]
          ELSE LET e == ParseElements(SubSeq(t, 2, n - 1))
               IN IF e.threw THEN [threw |-> TRUE, value |-> NoValue]
                  ELSE [threw |-> FALSE, value |-> [kind |-> "array", items |-> e.items]]
     ELSE [threw |-> TRUE, value |-> NoValue]

\* modelPriorityOrder has this many entries
NumModels == 5

\* What one backend does when called: it throws, or returns a text (which
\* may be empty).
BackendError == [threw |-> TRUE, content |-> <<>>]
Returns(text) == [threw |-> FALSE, content |-> text]

\* a loop that calls every model and keeps the last non-empty text
RunModelsToTheEnd(answers, i, calls) ==
  LET good == {k \in i..NumModels : ~answers[k].threw /\ answers[k].content # <<>>}
      last == CHOOSE k \in good : \A j \in good : j <= k
  IN [rawResponse |-> IF good = {} THEN <<>> ELSE answers[last].content,
      calls |-> calls \o [k \in 1..(NumModels - i + 1) |-> i + k - 1]]

\* The loop over modelPriorityOrder, from model i on: the first backend that
\* returns a non-empty text ends it.  calls lists the models called.
RECURSIVE RunModels(_, _, _)
RunModels(answers, i, calls) ==
  IF i > NumModels THEN [rawResponse |-> <<>>, calls |-> calls]
  ELSE IF answers[i].threw \/ answers[i].content = <<>>
  THEN RunModels(answers, i + 1, Append(calls, i))
  ELSE [rawResponse |-> answers[i].content, calls |-> Append(calls, i)]

\* parseEventDescription after its prompt is built: answers[i] is what the
\* i-th backend does if it is called.
ParseEventDescription(answers) ==
  LET run == RunModels(answers, 1, <<>>)
      json == ExtractJSON(run.rawResponse)
      parsed == JSONParse(json.text)
  IN IF run.rawResponse = <<>>
     THEN [threw |-> TRUE, error |-> "AllModelsFailed", calls |-> run.calls,
           events |-> NoValue, jsonProposal |-> <<>>]
     ELSE IF json.threw
     THEN [threw |-> TRUE, error |-> "NoJSONFound", calls |-> run.calls,
           events |-> NoValue, jsonProposal |-> <<>>]
     ELSE IF parsed.threw
     THEN [threw |-> TRUE, error |-> "SyntaxError", calls |-> run.calls,
           events |-> NoValue, jsonProposal |-> <<>>]
     ELSE [threw |-> FALSE, error |-> "", calls |-> run.calls,
           events |-> parsed.value, jsonProposal |-> json.text]

\* formatEventsReply: events.forEach throws a TypeError when events is not
\* an array; otherwise the reply lists the events.
FormatEventsReply(events) ==
  IF events.kind = "array" THEN [threw |-> FALSE, shown |-> events.items]
  ELSE [threw |-> TRUE, shown |-> <<>>]

----------------------------------------------------------------------------
(* The inputs of the model.                                                *)

\* chat ids
Chats == {1, 2}
\* values of Date.now() when /auth is handled
Nonces == {1, 2}

\* the calendar roster calendarList.list() returns
Cal(id) == [id |-> id, summary |-> id]
Rosters == {<<Cal(CalA), Cal(CalB)>>}

\* the address userinfo.get() returns
Email == <<"e">>

\* the token getToken() returns
Tokens == [access_token |-> "tok"]
\* the credentials of a client before setCredentials
NoTokens == [access_token |-> ""]

\* the command words, as texts
TxtDisable == <<"/", "d", "i", "s", "a", "b", "l", "e">>
TxtEnable == <<"/", "e", "n", "a", "b", "l", "e">>
TxtStart == <<"/", "s", "t", "a", "r", "t">>
TxtAuth == <<"/", "a", "u", "t", "h">>
TxtConfirm == <<"/", "c", "o", "n", "f", "i", "r", "m">>
TxtEdit == <<"/", "e", "d", "i", "t">>
TxtClear == <<"/", "c", "l", "e", "a", "r">>
TxtCalendars == <<"/", "c", "a", "l", "e", "n", "d", "a", "r", "s">>
TxtEnabled == <<"e", "n", "a", "b", "l", "e", "d">>

\* String.prototype.startsWith
StartsWith(s, p) == Len(s) >= Len(p) /\ SubSeq(s, 1, Len(p)) = p

\* String.prototype.slice(n)
Slice(s, n) == SubSeq(s, n + 1, Len(s))

\* the texts a generation backend may return
RespArray1 == <<"x", "[", " ", "{", "k", "}", " ", "]", "x">>
RespArray2 == <<"[", "{", "k", "}", ",", "{", "m", "}", "]">>
RespIndex == <<"[", "{", "n", "}", "]">>
RespObject == <<"{", "k", "}">>
RespNoJSON == <<"]", "x", "[">>
RespMalformed == <<"[", "x", "]">>

FirstReturns(r) == [i \in 1..NumModels |-> Returns(r)]
ThirdReturns(r) ==
  [i \in 1..NumModels |->
     IF i = 1 THEN BackendError ELSE IF i = 2 THEN Returns(<<>>) ELSE Returns(r)]
AllThrow == [i \in 1..NumModels |-> BackendError]

\* what the backends do during one extraction
Answers ==
  {FirstReturns(RespArray1), FirstReturns(RespIndex), FirstReturns(RespObject),
   FirstReturns(RespNoJSON), FirstReturns(RespMalformed),
   ThirdReturns(RespArray2), AllThrow}

\* the messages a chat sends
FreeTexts == {<<"t">>, <<"u">>}
EditTexts == {TxtEdit, TxtEdit \o <<" ">>, TxtEdit \o <<" ", "d">>}
DisableArgs ==
  {<<" ", "1", "x", " ", "1">>} \cup
  {<<>>, <<" ", "1">>, <<" ", "x", " ", "1">>, <<" ", "1", " ", "1">>,
   <<" ", "1", " ", "3">>, <<" ", "2", " ", "b">>, <<" ", "1", " ">> \o Primary}
OtherTexts == {<<"/", "x">>, <<"/", "e", "d">>}

----------------------------------------------------------------------------
(* The state of the process.                                               *)

VARIABLES
  pendingEvents,      \* Map chatId -> PendingEvents
  oauthAccounts,      \* Map chatId -> OAuthAccount[]
  pendingOAuth,       \* Map state -> PendingOAuth
  disabledCalendars,  \* Map chatId -> { accountId: Set of calendar ids }
  credentials,        \* the credentials of each OAuth2Client object created
  authCache,          \* the content of authCache.json, when the file exists
  inflight,           \* the handlers suspended at an await
  lastEvent,          \* what the last step of a handler did and sent
  overlapping         \* whether the transport starts a chat's handler while
                      \* another handler of that chat is in flight

vars ==
  <<pendingEvents, oauthAccounts, pendingOAuth, disabledCalendars, credentials,
    authCache, inflight, lastEvent, overlapping>>

\* `${chatId}:${uniqueId}`
StateOf(chatId, nonce) == ToStr(chatId) \o <<":">> \o ToStr(nonce)
States == {StateOf(c, n) : c \in Chats, n \in Nonces}

\* the OAuth2Client objects, in the order /auth creates them
Clients == 1..MaxClients
NumClients == Cardinality({k \in Clients : Has(credentials[k])})

\* what a step of a handler reports: the handler and the branch it took,
\* whether the handler ended with the step (and whether by an uncaught
\* exception), the text it was called with, the chat's pendingEvents entry
\* when the handler was called, the messages the handler has sent to the
\* chat so far, the events addEventToCalendar has gone through so far, the
\* insert the step sent to the calendar API, the handler's `pending` local,
\* the results of its parseEventDescription and resolveCalendarId calls, what
\* the backends answered to parseEventDescription, the result of a call of
\* extractJSON, and what became of the write of saveAuthCache ("written" or
\* "failed") when the step called it, and the chat's disabledCalendars entry
\* when the handler was called
NoEvent ==
  [handler |-> "", branch |-> "", chatId |-> 0, done |-> TRUE, threw |-> FALSE,
   text |-> <<>>, before |-> Absent, replies |-> <<>>, outcomes |-> <<>>,
   inserts |-> <<>>, pending |-> Absent, extraction |-> Absent, resolved |-> Absent,
   answers |-> <<>>, json |-> Absent, save |-> "", disabledBefore |-> Absent,
   replaced |-> Absent]

Reply(msg, calendar, accountId, title) ==
  [msg |-> msg, calendar |-> calendar, accountId |-> accountId, title |-> title,
   body |-> <<>>]
Say(msg) == Reply(msg, <<>>, 0, "")

Slots == 1..MaxInFlight
Free == {k \in Slots : ~Has(inflight[k])}
NewSlot == CHOOSE k \in Free : \A j \in Free : k <= j

\* the transport delivers a chat's updates in order; unless it overlaps
\* them, it starts no handler of a chat while another one is in flight
BotHandlers == {"message", "callback_query"}
MayStart(chatId) ==
  overlapping \/
    ~\E k \in Slots : Has(inflight[k]) /\ Get(inflight[k]).handler \in BotHandlers
                        /\ Get(inflight[k]).chatId = chatId

\* the object {}
EmptyObject == [a \in {} |-> {}]

\* Array.from(set): the elements of a set in an array.  A Set keeps its
\* elements in the order they were added; no handler depends on that order,
\* and the array takes them in a fixed one.
RECURSIVE ArrayFrom(_)
ArrayFrom(set) ==
  IF set = {} THEN <<>>
  ELSE LET x == CHOOSE x \in set : TRUE
       IN <<x>> \o ArrayFrom(set \ {x})

\* Object.fromEntries(Object.entries(userDisabled).map(([acctId, set]) =>
\*   [acctId, Array.from(set)])): the keys are the decimal strings of the
\* account ids
DisabledArrays(userDisabled) ==
  [key \in {ToStr(a) : a \in DOMAIN userDisabled} |->
     ArrayFrom(userDisabled[ParseInt(key).val])]

\* cacheData with the entry of one chat only, the lowest that has accounts
CacheDataOfOneChat(accounts, disabled, creds) ==
  LET with == {c \in Chats : Has(accounts[c])}
      one == {c \in with : \A other \in with : c <= other}
  IN [key \in {ToStr(c) : c \in one} |->
        LET c == ParseInt(key).val
        IN [kind |-> "object",
            accounts |->
              [i \in 1..Len(Get(accounts[c])) |->
                 [accountId |-> Get(accounts[c])[i].accountId,
                  email |-> Get(accounts[c])[i].email,
                  calendars |-> Get(accounts[c])[i].calendars,
                  tokens |-> Get(creds[Get(accounts[c])[i].oauth2Client])]],
            disabledCalendars |->
              IF Has(disabled[c]) THEN DisabledArrays(Get(disabled[c])) ELSE EmptyObject]]

\* cacheData of saveAuthCache over the maps as they are when it is called:
\* one entry per chat of oauthAccounts, under the decimal string of the
\* chat id
CacheData(accounts, disabled, creds) ==
  [key \in {ToStr(c) : c \in {c \in Chats : Has(accounts[c])}} |->
     LET c == ParseInt(key).val
     IN [kind |-> "object",
         accounts |->
           [i \in 1..Len(Get(accounts[c])) |->
              [accountId |-> Get(accounts[c])[i].accountId,
               email |-> Get(accounts[c])[i].email,
               calendars |-> Get(accounts[c])[i].calendars,
               tokens |-> Get(creds[Get(accounts[c])[i].oauth2Client])]],
         disabledCalendars |->
           IF Has(disabled[c]) THEN DisabledArrays(Get(disabled[c])) ELSE EmptyObject]]

\* the file writeFileSync(AUTH_CACHE_PATH, JSON.stringify(cacheData)) leaves
WrittenFile(cacheData) == [parses |-> TRUE, data |-> cacheData]

\* saveAuthCache rethrowing the error of a failed write
SaveAuthCacheRethrows(writeOk) == ~writeOk

\* whether saveAuthCache throws to its caller: the error of writeFileSync is
\* caught and logged
SaveAuthCacheThrows(writeOk) == FALSE

\* saveAuthCache: a failed write leaves the file as it was
SaveAuthCache(accounts, disabled, creds, writeOk) ==
  IF writeOk THEN Some(WrittenFile(CacheData(accounts, disabled, creds))) ELSE authCache

\* the range with its upper end left out
InRangeExclusive(calendarIndex, length) == calendarIndex >= 1 /\ calendarIndex < length

\* calendarIndex >= 1 && calendarIndex <= account.calendars.length
InRange(calendarIndex, length) == calendarIndex >= 1 /\ calendarIndex <= length

\* every identifier taken for a calendar id as it is
ResolveCalendarIdUnresolved(chatId, accountId, calendarIdentifier, isStrict) ==
  [threw |-> FALSE, success |-> TRUE, realCalendarId |-> calendarIdentifier,
   errorMsg |-> "", range |-> 0]

\* resolveCalendarId
ResolveCalendarId(chatId, accountId, calendarIdentifier, isStrict) ==
  LET accounts == oauthAccounts[chatId]
      found == IF Has(accounts)
               THEN SelectSeq(Get(accounts), LAMBDA acc : acc.accountId = accountId)
               ELSE <<>>
      calendarIndex == ParseInt(calendarIdentifier)
      ok(id) == [threw |-> FALSE, success |-> TRUE, realCalendarId |-> id,
                 errorMsg |-> "", range |-> 0]
      err(msg, n) == [threw |-> FALSE, success |-> FALSE, realCalendarId |-> <<>>,
                      errorMsg |-> msg, range |-> n]
  IN IF ~Has(accounts)
     THEN IF isStrict THEN err("No authenticated accounts found.", 0)
          ELSE ok(calendarIdentifier)
     ELSE IF found = <<>>
     THEN IF isStrict THEN err("Account not found.", accountId)
          ELSE ok(calendarIdentifier)
     ELSE LET calendars == found[1].calendars
              inRange == InRange(calendarIndex.val, Len(calendars))
          IN IF calendarIndex.nan THEN ok(calendarIdentifier)
             ELSE IF isStrict /\ ~inRange
             THEN err("Invalid calendar index.", Len(calendars))
             ELSE IF ~isStrict \/ inRange
             THEN IF calendarIndex.val \in 1..Len(calendars)
                  THEN ok(calendars[calendarIndex.val].id)
                  \* account.calendars[calendarIndex - 1] is undefined: reading
                  \* its id is a TypeError
                  ELSE [threw |-> TRUE, success |-> FALSE, realCalendarId |-> <<>>,
                        errorMsg |-> "", range |-> 0]
             ELSE ok(calendarIdentifier)

----------------------------------------------------------------------------
(* bot.on('message'): the commands that end without an await.              *)

\* the branch of the message handler a text takes: the first test of the
\* chain of text.startsWith(...) tests that succeeds
Command(text) ==
  IF StartsWith(text, TxtDisable) THEN "/disable"
  ELSE IF StartsWith(text, TxtEnable) THEN "/enable"
  ELSE IF StartsWith(text, TxtStart) THEN "/start"
  ELSE IF StartsWith(text, TxtAuth) THEN "/auth"
  ELSE IF StartsWith(text, TxtConfirm) THEN "/confirm"
  ELSE IF StartsWith(text, TxtEdit) THEN "/edit"
  ELSE IF StartsWith(text, TxtClear) THEN "/clear"
  ELSE IF StartsWith(text, TxtCalendars) THEN "/calendars"
  ELSE IF StartsWith(text, <<"/">>) THEN "unrecognized"
  ELSE "description"

Ev(handler, branch, chatId, text) ==
  [NoEvent EXCEPT !.handler = handler, !.branch = branch, !.chatId = chatId,
                  !.text = text,
                  !.before = IF chatId \in Chats THEN pendingEvents[chatId] ELSE Absent,
                  !.replaced = IF chatId \in Chats THEN pendingEvents[chatId] ELSE Absent,
                  !.disabledBefore =
                    IF chatId \in Chats THEN disabledCalendars[chatId] ELSE Absent]

\* the report of a step that has called saveAuthCache
Saved(e, writeOk) ==
  [e EXCEPT !.save = IF writeOk THEN "written" ELSE "failed",
            !.threw = SaveAuthCacheThrows(writeOk)]

\* the set of calendar ids disabled for an account of a chat
DisabledFor(disabled, chatId, accountId) ==
  IF Has(disabled[chatId]) /\ accountId \in DOMAIN Get(disabled[chatId])
  THEN Get(disabled[chatId])[accountId] ELSE {}

\* a set that drops the element it already has
SetAddToggling(set, x) == IF x \in set THEN set \ {x} ELSE set \cup {x}

\* Set.prototype.add
SetAdd(set, x) == set \cup {x}

\* /disable <account_id> <calendar_id>
Disable(chatId, text, writeOk) ==
  LET args == Trim(Slice(text, Len(TxtDisable)))
      parts == Parts(args)
      accountId == ParseInt(parts[1])
      result == ResolveCalendarId(chatId, accountId.val, parts[2], TRUE)
      userDisabled == IF Has(disabledCalendars[chatId])
                      THEN Get(disabledCalendars[chatId]) ELSE EmptyObject
      added == [a \in DOMAIN userDisabled \cup {accountId.val} |->
                  IF a = accountId.val
                  THEN SetAdd(DisabledFor(disabledCalendars, chatId, a), result.realCalendarId)
                  ELSE userDisabled[a]]
      e == [Ev("message", "/disable", chatId, text) EXCEPT
              !.resolved = IF Len(args) = 0 \/ Len(parts) < 2 \/ accountId.nan
                           THEN Absent
                           ELSE Some([accountId |-> accountId.val,
                                      calendarIdentifier |-> parts[2],
                                      isStrict |-> TRUE, result |-> result])]
      stop(msg) ==
        /\ lastEvent' = [e EXCEPT !.replies = <<Say(msg)>>]
        /\ UNCHANGED <<disabledCalendars, authCache>>
  IN /\ Command(text) = "/disable"
     /\ MayStart(chatId)
     /\ IF Len(args) = 0 \/ Len(parts) < 2 THEN stop("Invalid format.")
        ELSE IF accountId.nan THEN stop("Invalid account id provided.")
        ELSE IF ~result.success THEN stop(result.errorMsg)
        ELSE /\ disabledCalendars' = [disabledCalendars EXCEPT ![chatId] = Some(added)]
             /\ authCache' = SaveAuthCache(oauthAccounts, disabledCalendars', credentials, writeOk)
             /\ lastEvent' = Saved([e EXCEPT !.replies =
                  <<Reply("has been disabled.", result.realCalendarId, accountId.val, "")>>],
                                   writeOk)
     /\ UNCHANGED <<pendingEvents, oauthAccounts, pendingOAuth, credentials, inflight,
                    overlapping>>

\* /enable <account_id> <calendar_id>
Enable(chatId, text, writeOk) ==
  LET args == Trim(Slice(text, Len(TxtEnable)))
      parts == Parts(args)
      accountId == ParseInt(parts[1])
      result == ResolveCalendarId(chatId, accountId.val, parts[2], TRUE)
      userDisabled == IF Has(disabledCalendars[chatId])
                      THEN Get(disabledCalendars[chatId]) ELSE EmptyObject
      isDisabled == result.realCalendarId \in DisabledFor(disabledCalendars, chatId, accountId.val)
      removed == [userDisabled EXCEPT ![accountId.val] = @ \ {result.realCalendarId}]
      e == [Ev("message", "/enable", chatId, text) EXCEPT
              !.resolved = IF Len(args) = 0 \/ Len(parts) < 2 \/ accountId.nan
                           THEN Absent
                           ELSE Some([accountId |-> accountId.val,
                                      calendarIdentifier |-> parts[2],
                                      isStrict |-> TRUE, result |-> result])]
      stop(msg) ==
        /\ lastEvent' = [e EXCEPT !.replies = <<Say(msg)>>]
        /\ UNCHANGED <<disabledCalendars, authCache>>
  IN /\ Command(text) = "/enable"
     /\ MayStart(chatId)
     /\ IF Len(args) = 0 \/ Len(parts) < 2 THEN stop("Invalid format.")
        ELSE IF accountId.nan THEN stop("Invalid account id provided.")
        ELSE IF ~result.success THEN stop(result.errorMsg)
        ELSE /\ disabledCalendars' =
                  [disabledCalendars EXCEPT ![chatId] =
                     Some(IF isDisabled THEN removed ELSE userDisabled)]
             /\ authCache' = SaveAuthCache(oauthAccounts, disabledCalendars', credentials, writeOk)
             /\ lastEvent' = Saved([e EXCEPT !.replies =
                  <<Reply(IF isDisabled THEN "has been enabled." ELSE "is not disabled.",
                          result.realCalendarId, accountId.val, "")>>], writeOk)
     /\ UNCHANGED <<pendingEvents, oauthAccounts, pendingOAuth, credentials, inflight,
                    overlapping>>

\* /start
Start(chatId, text) ==
  /\ Command(text) = "/start"
  /\ MayStart(chatId)
  /\ lastEvent' = [Ev("message", "/start", chatId, text) EXCEPT !.replies = <<Say("Welcome!")>>]
  /\ UNCHANGED <<pendingEvents, oauthAccounts, pendingOAuth, disabledCalendars,
                 credentials, authCache, inflight, overlapping>>

\* /auth: a new OAuth2Client, stored under the state `${chatId}:${Date.now()}`
Auth(chatId, text, nonce) ==
  LET oauth2Client == NumClients + 1
      state == StateOf(chatId, nonce)
  IN /\ Command(text) = "/auth"
     /\ MayStart(chatId)
     /\ NumClients < MaxClients
     /\ credentials' = [credentials EXCEPT ![oauth2Client] = Some(NoTokens)]
     /\ pendingOAuth' = [pendingOAuth EXCEPT ![state] =
                           Some([chatId |-> chatId, oauth2Client |-> oauth2Client])]
     /\ lastEvent' = [Ev("message", "/auth", chatId, text) EXCEPT
                        !.replies = <<Say("Please authenticate")>>]
     /\ UNCHANGED <<pendingEvents, oauthAccounts, disabledCalendars, authCache, inflight,
                    overlapping>>

\* /confirm asking for the confirmation without looking for pending events
ConfirmReplyUnchecked(pending) == Say("Please confirm your events:")

\* what /confirm answers: without pending events a notice, with them the
\* question with the Confirm and Edit buttons
ConfirmReply(pending) ==
  IF ~Has(pending) THEN Say("No pending events. Send an event description first.")
  ELSE Say("Please confirm your events:")

\* /confirm: asks for the confirmation by button
Confirm(chatId, text) ==
  /\ Command(text) = "/confirm"
  /\ MayStart(chatId)
  /\ lastEvent' =
       [Ev("message", "/confirm", chatId, text) EXCEPT
          !.pending = pendingEvents[chatId],
          !.replies = <<ConfirmReply(pendingEvents[chatId])>>]
  /\ UNCHANGED <<pendingEvents, oauthAccounts, pendingOAuth, disabledCalendars,
                 credentials, authCache, inflight, overlapping>>

\* /clear
ClearKeepingDisabled(chatId, text, writeOk) ==
  /\ Command(text) = "/clear"
  /\ MayStart(chatId)
  /\ oauthAccounts' = [oauthAccounts EXCEPT ![chatId] = Absent]
  /\ authCache' = SaveAuthCache(oauthAccounts', disabledCalendars, credentials, writeOk)
  /\ lastEvent' = [Saved(Ev("message", "/clear", chatId, text), writeOk) EXCEPT
                     !.replies = <<Say("All authenticated accounts have been cleared.")>>]
  /\ UNCHANGED <<pendingEvents, disabledCalendars, pendingOAuth, credentials, inflight,
                 overlapping>>

\* /clear emptying the maps of every chat
ClearEveryChat(chatId, text, writeOk) ==
  /\ Command(text) = "/clear"
  /\ MayStart(chatId)
  /\ oauthAccounts' = [c \in Chats |-> Absent]
  /\ disabledCalendars' = [c \in Chats |-> Absent]
  /\ authCache' = SaveAuthCache(oauthAccounts', disabledCalendars', credentials, writeOk)
  /\ lastEvent' = [Saved(Ev("message", "/clear", chatId, text), writeOk) EXCEPT
                     !.replies = <<Say("All authenticated accounts have been cleared.")>>]
  /\ UNCHANGED <<pendingEvents, pendingOAuth, credentials, inflight, overlapping>>

\* /clear deleting the chat's pending events as well
ClearWithPending(chatId, text, writeOk) ==
  /\ Command(text) = "/clear"
  /\ MayStart(chatId)
  /\ oauthAccounts' = [oauthAccounts EXCEPT ![chatId] = Absent]
  /\ disabledCalendars' = [disabledCalendars EXCEPT ![chatId] = Absent]
  /\ pendingEvents' = [pendingEvents EXCEPT ![chatId] = Absent]
  /\ authCache' = SaveAuthCache(oauthAccounts', disabledCalendars', credentials, writeOk)
  /\ lastEvent' = [Saved(Ev("message", "/clear", chatId, text), writeOk) EXCEPT
                     !.replies = <<Say("All authenticated accounts have been cleared.")>>]
  /\ UNCHANGED <<pendingOAuth, credentials, inflight, overlapping>>

Clear(chatId, text, writeOk) ==
  /\ Command(text) = "/clear"
  /\ MayStart(chatId)
  /\ oauthAccounts' = [oauthAccounts EXCEPT ![chatId] = Absent]
  /\ disabledCalendars' = [disabledCalendars EXCEPT ![chatId] = Absent]
  /\ authCache' = SaveAuthCache(oauthAccounts', disabledCalendars', credentials, writeOk)
  /\ lastEvent' = [Saved(Ev("message", "/clear", chatId, text), writeOk) EXCEPT
                     !.replies = IF SaveAuthCacheThrows(writeOk) THEN <<>>
                                 ELSE <<Say("All authenticated accounts have been cleared.")>>]
  /\ UNCHANGED <<pendingEvents, pendingOAuth, credentials, inflight, overlapping>>

\* an unrecognized command that falls through to the handler of a
\* description and deletes the pending events
UnrecognizedFallingThrough(chatId, text) ==
  /\ Command(text) = "unrecognized"
  /\ MayStart(chatId)
  /\ pendingEvents' = [pendingEvents EXCEPT ![chatId] = Absent]
  /\ lastEvent' = [Ev("message", "unrecognized", chatId, text) EXCEPT
                     !.replies = <<Say("Unrecognized command.")>>]
  /\ UNCHANGED <<oauthAccounts, pendingOAuth, disabledCalendars,
                 credentials, authCache, inflight, overlapping>>

\* a text that starts with "/" and with no command word
Unrecognized(chatId, text) ==
  /\ Command(text) = "unrecognized"
  /\ MayStart(chatId)
  /\ lastEvent' = [Ev("message", "unrecognized", chatId, text) EXCEPT
                     !.replies = <<Say("Unrecognized command.")>>]
  /\ UNCHANGED <<pendingEvents, oauthAccounts, pendingOAuth, disabledCalendars,
                 credentials, authCache, inflight, overlapping>>

\* the lines of the calendars, numbered by their place among those shown
RECURSIVE CalendarLinesCountingShown(_, _, _, _, _)
CalendarLinesCountingShown(account, chatId, showDisabled, enabledOnly, index) ==
  IF index >= Len(account.calendars) THEN <<>>
  ELSE LET off(i) == account.calendars[i].id
                       \in DisabledFor(disabledCalendars, chatId, account.accountId)
           cal == account.calendars[index + 1]
           shown == Cardinality({i \in 1..index : ~(enabledOnly /\ off(i))})
           line == [kind |-> "calendar", accountId |-> account.accountId,
                    index |-> shown + 1, id |-> cal.id,
                    marked |-> showDisabled /\ off(index + 1)]
           rest == CalendarLinesCountingShown(account, chatId, showDisabled, enabledOnly,
                                              index + 1)
       IN IF enabledOnly /\ off(index + 1) THEN rest ELSE <<line>> \o rest

\* buildAccountsAndCalendarsMessage: the lines of the listing, one per
\* account and one per calendar shown, the latter with the index printed
\* and whether " (Disabled)" is appended
RECURSIVE CalendarLines(_, _, _, _, _)
CalendarLines(account, chatId, showDisabled, enabledOnly, index) ==
  IF index >= Len(account.calendars) THEN <<>>
  ELSE LET cal == account.calendars[index + 1]
           disabled == cal.id \in DisabledFor(disabledCalendars, chatId, account.accountId)
           line == [kind |-> "calendar", accountId |-> account.accountId,
                    index |-> index + 1, id |-> cal.id,
                    marked |-> showDisabled /\ disabled]
           rest == CalendarLines(account, chatId, showDisabled, enabledOnly, index + 1)
       IN IF enabledOnly /\ disabled THEN rest ELSE <<line>> \o rest

RECURSIVE BuildAccountsAndCalendarsMessage(_, _, _, _)
BuildAccountsAndCalendarsMessage(accounts, chatId, showDisabled, enabledOnly) ==
  IF accounts = <<>> THEN <<>>
  ELSE LET account == Head(accounts)
           label == [kind |-> "account", accountId |-> account.accountId, index |-> 0,
                     id |-> account.email, marked |-> FALSE]
           none == [kind |-> "No calendars found.", accountId |-> account.accountId,
                    index |-> 0, id |-> <<>>, marked |-> FALSE]
       IN <<label>>
          \o (IF Len(account.calendars) = 0 THEN <<none>>
              ELSE CalendarLines(account, chatId, showDisabled, enabledOnly, 0))
          \o BuildAccountsAndCalendarsMessage(Tail(accounts), chatId, showDisabled,
                                              enabledOnly)

\* /calendars [enabled]
Calendars(chatId, text) ==
  LET accounts == oauthAccounts[chatId]
      args == Trim(Slice(text, Len(TxtCalendars)))
      e == Ev("message", "/calendars", chatId, text)
      listing(enabledOnly) ==
        [Say(IF enabledOnly THEN "Enabled Calendars:"
             ELSE "Authenticated Calendars and Accounts:")
           EXCEPT !.body =
             BuildAccountsAndCalendarsMessage(Get(accounts), chatId, TRUE, enabledOnly)]
  IN /\ Command(text) = "/calendars"
     /\ MayStart(chatId)
     /\ lastEvent' =
          [e EXCEPT !.replies =
             IF ~Has(accounts) \/ Len(Get(accounts)) = 0
             THEN <<Say("No authenticated calendars found.")>>
             ELSE <<listing(args = TxtEnabled)>>]
     /\ UNCHANGED <<pendingEvents, oauthAccounts, pendingOAuth, disabledCalendars,
                    credentials, authCache, inflight, overlapping>>

----------------------------------------------------------------------------
(* bot.on('message'): event descriptions and /edit, which await the text   *)
(* generation.                                                             *)

\* a handler suspended at an await, with the locals it resumes with
NoTask ==
  [handler |-> "", branch |-> "", chatId |-> 0, text |-> <<>>, pending |-> Absent,
   latestEdit |-> <<>>, newEditHistory |-> <<>>, prompt |-> Absent, index |-> 0,
   insert |-> Absent, state |-> <<>>, oauth2Client |-> 0,
   \* for lastEvent: the chat's entry when the handler was called, the
   \* messages sent and the events gone through so far
   before |-> Absent, sent |-> <<>>, outcomes |-> <<>>]

\* a prompt that lists the disabled calendars with the others
PromptOfAllCalendars(userText, chatId, pending) ==
  LET accounts == IF Has(oauthAccounts[chatId]) THEN Get(oauthAccounts[chatId]) ELSE <<>>
  IN [accountInfo |-> BuildAccountsAndCalendarsMessage(accounts, chatId, FALSE, FALSE),
      previousProposalText |->
        IF Has(pending) /\ Get(pending).previousJSONProposal # <<>>
        THEN Get(pending).previousJSONProposal ELSE <<>>,
      userText |-> userText]

\* the parts of the prompt of parseEventDescription that depend on the
\* state; pending is pendingEvents.get(chatId) when the prompt is built
Prompt(userText, chatId, pending) ==
  LET accounts == IF Has(oauthAccounts[chatId]) THEN Get(oauthAccounts[chatId]) ELSE <<>>
  IN [accountInfo |-> BuildAccountsAndCalendarsMessage(accounts, chatId, FALSE, TRUE),
      previousProposalText |->
        IF Has(pending) /\ Get(pending).previousJSONProposal # <<>>
        THEN Get(pending).previousJSONProposal ELSE <<>>,
      userText |-> userText]

\* the entries as they are, nothing deleted
WithoutDelete(entries, chatId) == entries

\* pendingEvents.delete(chatId)
AfterDelete(entries, chatId) == [entries EXCEPT ![chatId] = Absent]

\* a text without a leading "/": up to the await in parseEventDescription,
\* which reads pendingEvents.get(chatId) after the handler's delete
Description(chatId, text) ==
  /\ Command(text) = "description"
  /\ MayStart(chatId)
  /\ Free # {}
  /\ pendingEvents' = AfterDelete(pendingEvents, chatId)
  /\ inflight' = [inflight EXCEPT ![NewSlot] =
                    Some([NoTask EXCEPT !.handler = "message", !.branch = "description",
                                        !.chatId = chatId, !.text = text,
                                        !.before = pendingEvents[chatId],
                                        !.prompt = Some(Prompt(text, chatId,
                                          AfterDelete(pendingEvents, chatId)[chatId]))])]
  /\ lastEvent' = [Ev("message", "description", chatId, text) EXCEPT !.done = FALSE]
  /\ UNCHANGED <<oauthAccounts, pendingOAuth, disabledCalendars, credentials, authCache,
                 overlapping>>

\* the proposal stored without the answer it was parsed from
NewProposalWithoutJSON(text, parsed) ==
  [events |-> parsed.events, originalText |-> text,
   previousJSONProposal |-> <<>>, editHistory |-> <<>>]

\* { events, originalText: text, previousJSONProposal: jsonProposal,
\*   editHistory: "" }
NewProposal(text, parsed) ==
  [events |-> parsed.events, originalText |-> text,
   previousJSONProposal |-> parsed.jsonProposal, editHistory |-> <<>>]

\* the rest of the handler of a description, once the backends have answered
DescriptionParsed(slot, answers) ==
  LET task == Get(inflight[slot])
      parsed == ParseEventDescription(answers)
      session == NewProposal(task.text, parsed)
      reply == FormatEventsReply(parsed.events)
  IN /\ Has(inflight[slot])
     /\ task.branch = "description"
     /\ pendingEvents' = IF parsed.threw THEN pendingEvents
                         ELSE [pendingEvents EXCEPT ![task.chatId] = Some(session)]
     /\ inflight' = [inflight EXCEPT ![slot] = Absent]
     /\ lastEvent' =
          [Ev("message", "description", task.chatId, task.text) EXCEPT
             !.before = task.before,
             !.answers = answers,
             !.extraction = Some(parsed),
             !.replies =
               IF parsed.threw \/ reply.threw
               THEN <<Say("Error parsing event description.")>>
               ELSE <<[Say("Proposed events:") EXCEPT !.body = reply.shown]>>]
     /\ UNCHANGED <<oauthAccounts, pendingOAuth, disabledCalendars, credentials, authCache,
                    overlapping>>

\* the number of edits joined in an edit history
EditCount(editHistory) ==
  IF editHistory = <<>> THEN 0
  ELSE 1 + Cardinality({i \in 1..Len(editHistory) : editHistory[i] = "\n"})

\* the latest text alone
LatestOnly(previous, latest) == latest

\* previous ? previous + "\n" + latest : latest
JoinLines(previous, latest) ==
  IF previous # <<>> THEN previous \o <<"\n">> \o latest ELSE latest

\* /edit <changes>: up to the await in parseEventDescription
Edit(chatId, text) ==
  LET latestEdit == Trim(Slice(text, Len(TxtEdit)))
      pending == pendingEvents[chatId]
      originalDescription == Get(pending).originalText
      previousEdits == Get(pending).editHistory
      newEditHistory == JoinLines(previousEdits, latestEdit)
      combinedDescription ==
        <<"O">> \o originalDescription \o <<"\n", "L">> \o latestEdit \o <<"\n">>
          \o (IF previousEdits # <<>> THEN <<"P">> \o previousEdits \o <<"\n">> ELSE <<>>)
      e == [Ev("message", "/edit", chatId, text) EXCEPT !.pending = pending]
  IN /\ Command(text) = "/edit"
     /\ MayStart(chatId)
     /\ IF latestEdit = <<>>
        THEN /\ lastEvent' = [e EXCEPT !.replies = <<Say("Please provide the update changes")>>]
             /\ UNCHANGED inflight
        ELSE IF ~Has(pending)
        THEN /\ lastEvent' = [e EXCEPT !.replies = <<Say("No pending events available to edit.")>>]
             /\ UNCHANGED inflight
        ELSE /\ Free # {}
             /\ EditCount(previousEdits) < MaxEdits
             /\ inflight' = [inflight EXCEPT ![NewSlot] =
                  Some([NoTask EXCEPT !.handler = "message", !.branch = "/edit",
                                      !.chatId = chatId, !.text = text,
                                      !.pending = pending, !.before = pending,
                                      !.latestEdit = latestEdit,
                                      !.newEditHistory = newEditHistory,
                                      !.prompt = Some(Prompt(combinedDescription, chatId, pending))])]
             /\ lastEvent' = [e EXCEPT !.done = FALSE]
     /\ UNCHANGED <<pendingEvents, oauthAccounts, pendingOAuth, disabledCalendars,
                    credentials, authCache, overlapping>>

\* the chat's pending events as they are when the backends have answered
ReadAgain(task) ==
  IF Has(pendingEvents[task.chatId]) THEN pendingEvents[task.chatId] ELSE task.pending

\* const pending = pendingEvents.get(chatId), read before the await
ReadAtStart(task) == task.pending

\* the rest of the /edit handler, once the backends have answered
EditParsed(slot, answers) ==
  LET task == Get(inflight[slot])
      pending == Get(ReadAtStart(task))
      parsed == ParseEventDescription(answers)
      newPreviousJSONProposal == JoinLines(pending.previousJSONProposal, parsed.jsonProposal)
      session == [events |-> parsed.events, originalText |-> pending.originalText,
                  previousJSONProposal |-> newPreviousJSONProposal,
                  editHistory |-> task.newEditHistory]
      reply == FormatEventsReply(parsed.events)
  IN /\ Has(inflight[slot])
     /\ task.branch = "/edit"
     /\ pendingEvents' = IF parsed.threw THEN pendingEvents
                         ELSE [pendingEvents EXCEPT ![task.chatId] = Some(session)]
     /\ inflight' = [inflight EXCEPT ![slot] = Absent]
     /\ lastEvent' =
          [Ev("message", "/edit", task.chatId, task.text) EXCEPT
             !.before = task.before,
             !.pending = task.pending,
             !.answers = answers,
             !.extraction = Some(parsed),
             !.replies =
               IF parsed.threw \/ reply.threw
               THEN <<Say("Error parsing updated event description.")>>
               ELSE <<[Say("Proposed events:") EXCEPT !.body = reply.shown]>>]
     /\ UNCHANGED <<oauthAccounts, pendingOAuth, disabledCalendars, credentials, authCache,
                    overlapping>>

----------------------------------------------------------------------------
(* addEventToCalendar and bot.on('callback_query').                        *)

\* the disabled calendars looked up under the first account's id
UserDisabledOfFirst(chatId, accountId, calendarIdToUse) ==
  calendarIdToUse \in DisabledFor(disabledCalendars, chatId, 1)

\* userDisabled[oauthAccount.accountId]?.has(calendarIdToUse)
UserDisabled(chatId, accountId, calendarIdToUse) ==
  calendarIdToUse \in DisabledFor(disabledCalendars, chatId, accountId)

\* the first account of the chat, whatever the event names
TargetFirstAccount(accounts, eventData) ==
  IF Has(accounts) /\ Len(Get(accounts)) > 0 THEN Some(Get(accounts)[1]) ELSE Absent

\* the account addEventToCalendar takes an event to: the account the event
\* names if the chat has it, otherwise the chat's first account
TargetAccount(accounts, eventData) ==
  LET found == IF eventData.accountId # 0 /\ Has(accounts)
               THEN SelectSeq(Get(accounts), LAMBDA acc : acc.accountId = eventData.accountId)
               ELSE <<>>
  IN IF found # <<>> THEN Some(found[1])
     ELSE IF Has(accounts) /\ Len(Get(accounts)) > 0
     THEN Some(Get(accounts)[1])
     ELSE Absent

\* addEventToCalendar up to its await: the message it sends without
\* inserting, or the insert it sends to the calendar API; outcome tells
\* which account and calendar it took the event to and what it did with it
AddEventToCalendar(chatId, eventData) ==
  LET accounts == oauthAccounts[chatId]
      oauthAccount == TargetAccount(accounts, eventData)
      calendarIdToUse == IF eventData.calendar # <<>> THEN eventData.calendar ELSE Primary
      accountId == Get(oauthAccount).accountId
      outcome(did) == [did |-> did, title |-> eventData.title, accountId |-> accountId,
                       calendarId |-> calendarIdToUse]
  IN IF ~Has(oauthAccount)
     THEN [replies |-> <<Say("No authenticated Google account found.")>>,
           insert |-> Absent,
           outcome |-> [did |-> "no account", title |-> eventData.title, accountId |-> 0,
                        calendarId |-> <<>>]]
     ELSE IF UserDisabled(chatId, accountId, calendarIdToUse)
     THEN [replies |-> <<Reply("is currently disabled. Skipping event:", calendarIdToUse,
                               accountId, eventData.title)>>,
           insert |-> Absent, outcome |-> outcome("skipped")]
     ELSE [replies |-> <<>>,
           insert |-> Some([calendarId |-> calendarIdToUse, accountId |-> accountId,
                            oauth2Client |-> Get(oauthAccount).oauth2Client,
                            title |-> eventData.title]),
           outcome |-> outcome("insert")]

\* the loop over pending.events from its index-th element on, up to the next
\* insert it awaits or to its end
RECURSIVE ConfirmLoop(_, _, _)
ConfirmLoop(chatId, events, index) ==
  IF index > Len(events)
  THEN [replies |-> <<>>, outcomes |-> <<>>, insert |-> Absent, index |-> index]
  ELSE LET added == AddEventToCalendar(chatId, events[index])
       IN IF Has(added.insert)
          THEN [replies |-> <<>>, outcomes |-> <<added.outcome>>, insert |-> added.insert,
                index |-> index]
          ELSE LET rest == ConfirmLoop(chatId, events, index + 1)
               IN [rest EXCEPT !.replies = added.replies \o @,
                               !.outcomes = <<added.outcome>> \o @]

\* the confirm handler from the index-th event on, having sent the messages
\* of sent and gone through the events of outcomes: it suspends at the next
\* insert, or ends after deleting the chat's pending events
ConfirmFrom(slot, chatId, pending, index, sent, outcomes) ==
  LET loop == ConfirmLoop(chatId, Get(pending).events.items, index)
      e == [Ev("callback_query", "confirm", chatId, <<>>) EXCEPT
              !.pending = pending, !.before = pending,
              !.outcomes = outcomes \o loop.outcomes]
  IN IF Has(loop.insert)
     THEN /\ inflight' = [inflight EXCEPT ![slot] =
               Some([NoTask EXCEPT !.handler = "callback_query", !.branch = "confirm",
                                   !.chatId = chatId, !.pending = pending,
                                   !.before = pending,
                                   !.index = loop.index, !.insert = loop.insert,
                                   !.sent = sent \o loop.replies,
                                   !.outcomes = outcomes \o loop.outcomes])]
          /\ lastEvent' = [e EXCEPT !.done = FALSE, !.replies = sent \o loop.replies,
                                    !.inserts = <<Get(loop.insert)>>]
          /\ UNCHANGED pendingEvents
     ELSE /\ inflight' = [inflight EXCEPT ![slot] = Absent]
          /\ pendingEvents' = [pendingEvents EXCEPT ![chatId] = Absent]
          /\ lastEvent' = [e EXCEPT !.replies =
               sent \o loop.replies \o <<Say("Events confirmed and added to your calendar.")>>]

\* the Confirm button
CallbackConfirm(chatId) ==
  LET pending == pendingEvents[chatId]
      e == [Ev("callback_query", "confirm", chatId, <<>>) EXCEPT !.pending = pending]
  IN /\ MayStart(chatId)
     /\ IF ~Has(pending)
        THEN /\ lastEvent' = [e EXCEPT !.replies = <<Say("No pending events to confirm.")>>]
             /\ UNCHANGED <<pendingEvents, inflight>>
        ELSE IF Get(pending).events.kind # "array"
        \* for (const eventData of pending.events): a TypeError, events is
        \* not iterable; the handler's promise rejects
        THEN /\ lastEvent' = [e EXCEPT !.threw = TRUE]
             /\ UNCHANGED <<pendingEvents, inflight>>
        ELSE /\ Free # {}
             /\ ConfirmFrom(NewSlot, chatId, pending, 1, <<>>, <<>>)
     /\ UNCHANGED <<oauthAccounts, pendingOAuth, disabledCalendars, credentials, authCache,
                    overlapping>>

\* events.insert settles: the handler reports it and goes on with the loop
InsertSettled(slot, inserted) ==
  LET task == Get(inflight[slot])
      insert == Get(task.insert)
      report == IF inserted
                THEN Reply("Event added to calendar", insert.calendarId, insert.accountId,
                           insert.title)
                ELSE Say("There was an error adding the event.")
  IN /\ Has(inflight[slot])
     /\ task.branch = "confirm"
     /\ ConfirmFrom(slot, task.chatId, task.pending, task.index + 1,
                    Append(task.sent, report), task.outcomes)
     /\ UNCHANGED <<oauthAccounts, pendingOAuth, disabledCalendars, credentials, authCache,
                    overlapping>>

\* the Edit button
CallbackEdit(chatId) ==
  /\ MayStart(chatId)
  /\ lastEvent' = [Ev("callback_query", "edit", chatId, <<>>) EXCEPT
                     !.replies = <<Say("Please send your updated event description")>>]
  /\ UNCHANGED <<pendingEvents, oauthAccounts, pendingOAuth, disabledCalendars,
                 credentials, authCache, inflight, overlapping>>

----------------------------------------------------------------------------
(* app.get('/oauth2callback').                                             *)

\* String.prototype.split(':')
RECURSIVE SplitColon(_, _)
SplitColon(s, cur) ==
  IF s = <<>> THEN <<cur>>
  ELSE IF Head(s) = ":" THEN <<cur>> \o SplitColon(Tail(s), <<>>)
  ELSE SplitColon(Tail(s), Append(cur, Head(s)))

\* the callbacks of a chat suspended at an await
CallbacksInFlight(chatId) ==
  Cardinality({k \in Slots : Has(inflight[k]) /\ Get(inflight[k]).handler = "oauth2callback"
                               /\ Get(inflight[k]).chatId = chatId})

AccountsOf(chatId) == IF Has(oauthAccounts[chatId]) THEN Get(oauthAccounts[chatId]) ELSE <<>>

\* the request arrives: up to the await of getToken
OAuthCallback(state) ==
  LET parts == SplitColon(state, <<>>)
      chatId == ParseInt(parts[1]).val
      pending == IF state \in DOMAIN pendingOAuth THEN pendingOAuth[state] ELSE Absent
      e == Ev("oauth2callback", "getToken", chatId, state)
  IN /\ IF Len(parts) < 2
        THEN /\ lastEvent' = [Ev("oauth2callback", "Invalid state parameter.", 0, state)
                                EXCEPT !.done = TRUE]
             /\ UNCHANGED inflight
        ELSE IF ~Has(pending)
        THEN /\ lastEvent' = [e EXCEPT !.branch = "OAuth client not found for this session."]
             /\ UNCHANGED inflight
        ELSE /\ Free # {}
             /\ Len(AccountsOf(chatId)) + CallbacksInFlight(chatId) < MaxAccounts
             /\ inflight' = [inflight EXCEPT ![NewSlot] =
                  Some([NoTask EXCEPT !.handler = "oauth2callback", !.branch = "getToken",
                                      !.chatId = chatId, !.state = state,
                                      !.oauth2Client = Get(pending).oauth2Client])]
             /\ lastEvent' = [e EXCEPT !.done = FALSE]
     /\ UNCHANGED <<pendingEvents, oauthAccounts, pendingOAuth, disabledCalendars,
                    credentials, authCache, overlapping>>

\* getToken settles: the client gets its credentials and the handler awaits
\* the calendar list and the user's address, or the catch block reports
TokenSettled(slot, ok) ==
  LET task == Get(inflight[slot])
      e == Ev("oauth2callback", "fetchCalendars", task.chatId, task.state)
  IN /\ Has(inflight[slot])
     /\ task.branch = "getToken"
     /\ IF ok
        THEN /\ credentials' = [credentials EXCEPT ![task.oauth2Client] = Some(Tokens)]
             /\ inflight' = [inflight EXCEPT ![slot] =
                               Some([task EXCEPT !.branch = "fetchCalendars"])]
             /\ lastEvent' = [e EXCEPT !.done = FALSE]
        ELSE /\ inflight' = [inflight EXCEPT ![slot] = Absent]
             /\ lastEvent' = [e EXCEPT !.branch = "error", !.replies =
                  <<Say("There was an error during Google Calendar authentication.")>>]
             /\ UNCHANGED credentials
     /\ UNCHANGED <<pendingEvents, oauthAccounts, pendingOAuth, disabledCalendars,
                    authCache, overlapping>>

\* the account numbered from 0
NewAccountIdFromZero(existingAccounts) == Len(existingAccounts)

\* accountId: existingAccounts.length + 1
NewAccountId(existingAccounts) == Len(existingAccounts) + 1

\* calendarList.list and userinfo.get settle: the account is appended with
\* accountId = existingAccounts.length + 1, the cache is saved and the
\* pending authorization deleted; or the catch block reports
Registered(slot, ok, calendars, writeOk) ==
  LET task == Get(inflight[slot])
      chatId == task.chatId
      existingAccounts == AccountsOf(chatId)
      newAccount == [accountId |-> NewAccountId(existingAccounts), email |-> Email,
                     oauth2Client |-> task.oauth2Client, calendars |-> calendars]
      e == Ev("oauth2callback", "registered", chatId, task.state)
  IN /\ Has(inflight[slot])
     /\ task.branch = "fetchCalendars"
     /\ inflight' = [inflight EXCEPT ![slot] = Absent]
     /\ IF ok
        THEN /\ oauthAccounts' = [oauthAccounts EXCEPT ![chatId] =
                                    Some(Append(existingAccounts, newAccount))]
             /\ authCache' = SaveAuthCache(oauthAccounts', disabledCalendars, credentials,
                                           writeOk)
             /\ pendingOAuth' =
                  IF SaveAuthCacheThrows(writeOk) THEN pendingOAuth
                  ELSE [pendingOAuth EXCEPT ![task.state] = Absent]
             \* an error thrown by saveAuthCache would end in the catch block
             /\ lastEvent' =
                  IF SaveAuthCacheThrows(writeOk)
                  THEN [e EXCEPT !.branch = "error",
                                 !.save = "failed",
                                 !.replies =
                    <<Say("There was an error during Google Calendar authentication.")>>]
                  ELSE Saved(e, writeOk)
        ELSE /\ lastEvent' = [e EXCEPT !.branch = "error", !.replies =
                  <<Say("There was an error during Google Calendar authentication.")>>]
             /\ UNCHANGED <<oauthAccounts, authCache, pendingOAuth>>
     /\ UNCHANGED <<pendingEvents, disabledCalendars, credentials, overlapping>>

----------------------------------------------------------------------------
(* loadAuthCache, which runs once when the process starts.                 *)

\* a set of the first element of an array only
SetOfFirst(arr) == IF arr = <<>> THEN {} ELSE {arr[1]}

\* new Set(arr)
SetOf(arr) == {arr[i] : i \in 1..Len(arr)}

\* the keys of the parsed file in the order for...in visits them: keys that
\* are integers come in ascending order
RECURSIVE KeysInOrder(_)
KeysInOrder(keys) ==
  IF keys = {} THEN <<>>
  ELSE LET first == CHOOSE k \in keys :
                      \A j \in keys : ParseInt(k).val <= ParseInt(j).val
       IN <<first>> \o KeysInOrder(keys \ {first})

\* the maps before loadAuthCache; clients counts the OAuth2Client objects
\* created
NothingLoaded ==
  [threw |-> FALSE,
   accounts |-> [c \in Chats |-> Absent],
   disabled |-> [c \in Chats |-> Absent],
   credentials |-> [k \in Clients |-> Absent],
   clients |-> 0]

\* the loop of loadAuthCache over the chats of the parsed file: a chat's
\* entry that is not an object throws at chatData.accounts, which ends the
\* loop in the catch block with the chats before it already set
RECURSIVE LoadChats(_, _, _)
LoadChats(data, keys, loaded) ==
  IF keys = <<>> THEN loaded
  ELSE LET chatData == data[Head(keys)]
           chatId == ParseInt(Head(keys)).val
           n == Len(chatData.accounts)
           oauthAccountsList ==
             [i \in 1..n |->
                [accountId |-> chatData.accounts[i].accountId,
                 email |-> chatData.accounts[i].email,
                 oauth2Client |-> loaded.clients + i,
                 calendars |-> chatData.accounts[i].calendars]]
           disabledForChat ==
             [a \in {ParseInt(k).val : k \in DOMAIN chatData.disabledCalendars} |->
                SetOf(chatData.disabledCalendars[
                        CHOOSE k \in DOMAIN chatData.disabledCalendars :
                          ParseInt(k).val = a])]
       IN IF chatData.kind # "object" THEN [loaded EXCEPT !.threw = TRUE]
          ELSE LoadChats(data, Tail(keys),
                 [loaded EXCEPT
                    !.accounts[chatId] = Some(oauthAccountsList),
                    !.disabled[chatId] = Some(disabledForChat),
                    !.credentials =
                      [k \in Clients \cup 1..(loaded.clients + n) |->
                         IF k \in (loaded.clients + 1)..(loaded.clients + n)
                         THEN Some(chatData.accounts[k - loaded.clients].tokens)
                         ELSE IF k \in DOMAIN loaded.credentials
                         THEN loaded.credentials[k]
                         ELSE Absent],
                    !.clients = loaded.clients + n])

\* loadAuthCache: nothing without a file; JSON.parse throws on a file that
\* is not JSON
Load(file) ==
  IF ~Has(file) THEN NothingLoaded
  ELSE IF ~Get(file).parses THEN [NothingLoaded EXCEPT !.threw = TRUE]
  ELSE LoadChats(Get(file).data, KeysInOrder(DOMAIN Get(file).data), NothingLoaded)

LoadedAccounts(file) == Load(file).accounts
LoadedDisabled(file) == Load(file).disabled
LoadedCredentials(file) == Load(file).credentials

\* what the start of the process reports
LoadEvent(file) ==
  [NoEvent EXCEPT !.handler = "loadAuthCache", !.threw = Load(file).threw]

\* the process has started on the file: no handler has run yet
Started(file) ==
  /\ pendingEvents = [c \in Chats |-> Absent]
  /\ oauthAccounts = LoadedAccounts(file)
  /\ pendingOAuth = [s \in States |-> Absent]
  /\ disabledCalendars = LoadedDisabled(file)
  /\ credentials = LoadedCredentials(file)
  /\ authCache = file
  /\ inflight = [k \in Slots |-> Absent]
  /\ lastEvent = LoadEvent(file)

\* the process is stopped and started again on the file as it is
Restart ==
  /\ pendingEvents' = [c \in Chats |-> Absent]
  /\ oauthAccounts' = LoadedAccounts(authCache)
  /\ pendingOAuth' = [s \in States |-> Absent]
  /\ disabledCalendars' = LoadedDisabled(authCache)
  /\ credentials' = LoadedCredentials(authCache)
  /\ inflight' = [k \in Slots |-> Absent]
  /\ lastEvent' = LoadEvent(authCache)
  /\ UNCHANGED <<authCache, overlapping>>

\* files an earlier run of the process has left: one account with its first
\* calendar disabled; two accounts, the second with "primary" disabled; two
\* accounts with nothing disabled
SavedAccount(accountId, calendars) ==
  [accountId |-> accountId, email |-> Email, calendars |-> calendars, tokens |-> Tokens]
SavedChat(accounts, disabled) ==
  [kind |-> "object", accounts |-> accounts, disabledCalendars |-> disabled]
FileOneAccount ==
  WrittenFile(ToStr(1) :> SavedChat(<<SavedAccount(1, <<Cal(CalA), Cal(CalB)>>)>>,
                                    ToStr(1) :> <<CalA>>))
FileTwoAccounts ==
  WrittenFile(ToStr(1) :> SavedChat(<<SavedAccount(1, <<Cal(CalA)>>),
                                      SavedAccount(2, <<Cal(CalA), Cal(CalB)>>)>>,
                                    ToStr(2) :> <<Primary>>))
FileNothingDisabled ==
  WrittenFile(ToStr(1) :> SavedChat(<<SavedAccount(1, <<Cal(CalA)>>),
                                      SavedAccount(2, <<Cal(CalA), Cal(CalB)>>)>>,
                                    EmptyObject))
CacheFiles ==
  {Absent, Some(FileOneAccount), Some(FileTwoAccounts), Some(FileNothingDisabled)}

----------------------------------------------------------------------------
(* The process under a transport that delivers each chat's updates one     *)
(* after the other: the lifecycle of a chat's proposal, with the accounts  *)
(* an earlier run has left in authCache.json.                              *)

Init ==
  /\ \E file \in CacheFiles : Started(file)
  /\ overlapping = FALSE

Settled(slot) ==
  \/ \E answers \in Answers : DescriptionParsed(slot, answers) \/ EditParsed(slot, answers)
  \/ \E inserted \in BOOLEAN : InsertSettled(slot, inserted)

Next ==
  \/ \E text \in FreeTexts : Description(1, text)
  \/ \E text \in EditTexts : Edit(1, text)
  \/ Confirm(1, TxtConfirm)
  \/ CallbackConfirm(1)
  \/ CallbackEdit(1)
  \/ \E text \in OtherTexts : Unrecognized(1, text)
  \/ Clear(1, TxtClear, TRUE)
  \/ \E slot \in Slots : Settled(slot)

Spec == Init /\ [][Next]_vars

----------------------------------------------------------------------------
(* The process from an empty start: a chat connects accounts.  No          *)
(* transport orders the authorization callbacks, so they overlap each      *)
(* other and the chat's commands.                                          *)

InitAccounts ==
  /\ Started(Absent)
  /\ overlapping = FALSE

AccountsSettled(slot) ==
  \/ \E ok \in BOOLEAN : TokenSettled(slot, ok)
  \/ \E ok \in BOOLEAN, calendars \in Rosters : Registered(slot, ok, calendars, TRUE)

NextAccounts ==
  \/ \E nonce \in Nonces : Auth(1, TxtAuth, nonce)
  \/ Clear(1, TxtClear, TRUE)
  \/ Disable(1, TxtDisable \o <<" ", "1", " ", "1">>, TRUE)
  \/ \E text \in {TxtCalendars, TxtCalendars \o <<" ">> \o TxtEnabled} :
       Calendars(1, text)
  \/ \E state \in {StateOf(1, n) : n \in Nonces} \cup {<<"1">>} : OAuthCallback(state)
  \/ \E slot \in Slots : AccountsSettled(slot)

SpecAccounts == InitAccounts /\ [][NextAccounts]_vars


----------------------------------------------------------------------------
(* resolveCalendarId on its own: the process has loaded a file with up to  *)
(* MaxAccounts accounts of up to MaxCalendars calendars each, and the      *)
(* function is applied to an account id and a calendar identifier.         *)

MaxCalendars == 3

\* the id of the k-th calendar of a roster
CalId(k) == <<"c">> \o ToStr(k)
RosterOf(n) == [k \in 1..n |-> Cal(CalId(k))]

\* the files with one chat of accounts 1..n, each with its own roster
ResolveFiles ==
  UNION {{WrittenFile(ToStr(1) :>
                        SavedChat([i \in 1..n |-> SavedAccount(i, RosterOf(sizes[i]))],
                                  EmptyObject)) :
            sizes \in [1..n -> 0..MaxCalendars]} : n \in 1..MaxAccounts}

\* the identifiers given to the function: the indices around every roster,
\* a negative one, an index followed by a letter, ids and a word
Identifiers ==
  {ToStr(k) : k \in 0..(MaxCalendars + 1)}
    \cup {<<"-", "1">>, <<"1", "x">>, CalId(1), Primary, <<"x">>}

ResolveCall(chatId, accountId, calendarIdentifier, isStrict) ==
  /\ lastEvent' =
       [Ev("resolveCalendarId", "", chatId, calendarIdentifier) EXCEPT
          !.resolved = Some([accountId |-> accountId,
                             calendarIdentifier |-> calendarIdentifier,
                             isStrict |-> isStrict,
                             result |-> ResolveCalendarId(chatId, accountId,
                                                          calendarIdentifier, isStrict)])]
  /\ UNCHANGED <<pendingEvents, oauthAccounts, pendingOAuth, disabledCalendars,
                 credentials, authCache, inflight, overlapping>>

InitResolve ==
  /\ \E file \in {Absent} \cup {Some(f) : f \in ResolveFiles} : Started(file)
  /\ overlapping = FALSE
NextResolve ==
  \E chatId \in Chats, accountId \in 1..(MaxAccounts + 1),
     calendarIdentifier \in Identifiers, isStrict \in BOOLEAN :
    ResolveCall(chatId, accountId, calendarIdentifier, isStrict)
SpecResolve == InitResolve /\ [][NextResolve]_vars

----------------------------------------------------------------------------
(* The process and its file: two chats enable, disable and clear, the      *)
(* writes of the file may fail, and the process may be restarted at any    *)
(* time.  The process starts on a file an earlier run has left, or on one  *)
(* that was damaged since.                                                 *)

\* a chat's entry that is null
NullChat == [kind |-> "null", accounts |-> <<>>, disabledCalendars |-> EmptyObject]

\* a file that is not JSON
Garbage == [parses |-> FALSE, data |-> EmptyObject]

\* a file with an account for each of two chats
FileTwoChats ==
  WrittenFile(ToStr(1) :> SavedChat(<<SavedAccount(1, <<Cal(CalA), Cal(CalB)>>)>>,
                                    ToStr(1) :> <<CalA>>)
              @@ ToStr(2) :> SavedChat(<<SavedAccount(1, <<Cal(CalA)>>)>>, EmptyObject))

\* the same file with the entry of the second, or of the first, chat null
FileSecondChatNull == WrittenFile(ToStr(2) :> NullChat @@ FileTwoChats.data)
FileFirstChatNull == WrittenFile(ToStr(1) :> NullChat @@ FileTwoChats.data)

PersistFiles ==
  {Absent, Some(FileTwoChats), Some(Garbage), Some(FileSecondChatNull),
   Some(FileFirstChatNull)}

InitPersist ==
  /\ \E file \in PersistFiles : Started(file)
  /\ overlapping = FALSE
\* the arguments that name an account and a calendar of the files, and the
\* others
GoodArgs == {args \in DisableArgs : Len(Parts(Trim(args))) >= 2 /\ Parts(Trim(args))[1] = <<"1">>
                                      /\ Parts(Trim(args))[2] \in {<<"1">>, Primary}}
BadArgs == DisableArgs \ GoodArgs
NextPersist ==
  \/ \E args \in GoodArgs, writeOk \in BOOLEAN : Disable(1, TxtDisable \o args, writeOk)
  \/ \E args \in GoodArgs, writeOk \in BOOLEAN : Enable(1, TxtEnable \o args, writeOk)
  \/ \E args \in BadArgs : Disable(1, TxtDisable \o args, TRUE)
  \/ \E args \in BadArgs : Enable(1, TxtEnable \o args, TRUE)
  \/ \E writeOk \in BOOLEAN : Disable(2, TxtDisable \o <<" ", "1", " ", "1">>, writeOk)
  \/ \E chatId \in Chats, writeOk \in BOOLEAN : Clear(chatId, TxtClear, writeOk)
  \/ Restart
SpecPersist == InitPersist /\ [][NextPersist]_vars

----------------------------------------------------------------------------
(* parseEventDescription and extractJSON on their own: the backends answer *)
(* in every combination of failing, returning nothing and returning a      *)
(* text, and extractJSON is applied to every short text of brackets and    *)
(* braces.                                                                 *)

MaxResponseLen == 4

ResponseChars == {"[", "]", "{", "}"}
Responses == UNION {[1..n -> ResponseChars] : n \in 0..MaxResponseLen}

\* the text each backend returns when it returns one
BackendTexts == <<RespArray1, RespNoJSON, RespArray2, RespIndex, RespMalformed>>
BackendAnswer(kind, i) ==
  CASE kind = "throws" -> BackendError
    [] kind = "empty" -> Returns(<<>>)
    [] kind = "text" -> Returns(BackendTexts[i])

InitExtract ==
  /\ Started(Absent)
  /\ overlapping = FALSE

\* extractJSON(response)
ExtractCall(response) ==
  /\ lastEvent' = [NoEvent EXCEPT !.handler = "extractJSON", !.text = response,
                                  !.json = Some(ExtractJSON(response))]
  /\ UNCHANGED <<pendingEvents, oauthAccounts, pendingOAuth, disabledCalendars, credentials,
                 authCache, inflight, overlapping>>

\* parseEventDescription with backends that answer this way
ParseCall(answers) ==
  /\ lastEvent' = [NoEvent EXCEPT !.handler = "parseEventDescription",
                                  !.answers = answers,
                                  !.extraction = Some(ParseEventDescription(answers))]
  /\ UNCHANGED <<pendingEvents, oauthAccounts, pendingOAuth, disabledCalendars, credentials,
                 authCache, inflight, overlapping>>

NextExtract ==
  \/ \E response \in Responses : ExtractCall(response)
  \/ \E kinds \in [1..NumModels -> {"throws", "empty", "text"}] :
       ParseCall([i \in 1..NumModels |-> BackendAnswer(kinds[i], i)])

SpecExtract == InitExtract /\ [][NextExtract]_vars

----------------------------------------------------------------------------
(* The same transport with the Confirm button: a chat with two accounts    *)
(* and nothing disabled sends a description when it has nothing pending    *)
(* and nothing in flight, then edits and presses Confirm while earlier     *)
(* handlers are suspended.                                                 *)

RaceEdits == {TxtEdit \o <<" ", "d">>}
RaceAnswers == {FirstReturns(RespArray2)}

InitRace ==
  /\ Started(Some(FileNothingDisabled))
  /\ overlapping = TRUE

RaceSettled(slot) ==
  \/ \E answers \in RaceAnswers : DescriptionParsed(slot, answers)
  \/ \E answers \in RaceAnswers : EditParsed(slot, answers)
  \/ \E inserted \in BOOLEAN : InsertSettled(slot, inserted)

NextRace ==
  \/ /\ ~Has(pendingEvents[1])
     /\ Free = Slots
     /\ Description(1, <<"t">>)
  \/ \E text \in RaceEdits : Edit(1, text)
  \/ CallbackConfirm(1)
  \/ \E slot \in Slots : RaceSettled(slot)

SpecRace == InitRace /\ [][NextRace]_vars

----------------------------------------------------------------------------
(* The process under a transport that starts the handler of an update      *)
(* while earlier handlers of the same chat are suspended at an await: a    *)
(* chat with one account sends a description and edits of the proposal as  *)
(* it was first made.                                                      *)

OverlapEdits == {TxtEdit \o <<" ", "d">>, TxtEdit \o <<" ", "e">>}
OverlapAnswers == {FirstReturns(RespArray1), AllThrow}

InitOverlap ==
  /\ Started(Some(FileOneAccount))
  /\ overlapping = TRUE

OverlapSettled(slot) ==
  \/ \E answers \in OverlapAnswers : DescriptionParsed(slot, answers)
  \/ \E answers \in OverlapAnswers : EditParsed(slot, answers)

NextOverlap ==
  \/ Description(1, <<"t">>)
  \/ \E text \in OverlapEdits :
       /\ Has(pendingEvents[1]) => Get(pendingEvents[1]).editHistory = <<>>
       /\ Edit(1, text)
  \/ \E slot \in Slots : OverlapSettled(slot)

SpecOverlap == InitOverlap /\ [][NextOverlap]_vars

----------------------------------------------------------------------------
(* Two chats side by side: the first has an account from an earlier run,   *)
(* the second connects one; both propose and confirm events, disable a     *)
(* calendar and clear their accounts.                                      *)

InitChats ==
  /\ Started(Some(FileOneAccount))
  /\ overlapping = FALSE

ChatsSettled(slot) ==
  \/ DescriptionParsed(slot, FirstReturns(RespArray1))
  \/ InsertSettled(slot, TRUE)
  \/ TokenSettled(slot, TRUE)
  \/ \E calendars \in Rosters : Registered(slot, TRUE, calendars, TRUE)

NextChats ==
  \/ \E chatId \in Chats : Description(chatId, <<"t">>)
  \/ \E chatId \in Chats : CallbackConfirm(chatId)
  \/ \E chatId \in Chats : Disable(chatId, TxtDisable \o <<" ", "1", " ", "1">>, TRUE)
  \/ \E chatId \in Chats : Clear(chatId, TxtClear, TRUE)
  \/ Auth(2, TxtAuth, 1)
  \/ OAuthCallback(StateOf(2, 1))
  \/ \E slot \in Slots : ChatsSettled(slot)

SpecChats == InitChats /\ [][NextChats]_vars

----------------------------------------------------------------------------
(* Properties of the confirm and /confirm handlers.                        *)

\* the last step belongs to a run of the Confirm button's handler for a
\* chat that had pending events when the button was pressed
ConfirmCarriedOut ==
  /\ lastEvent.handler = "callback_query"
  /\ lastEvent.branch = "confirm"
  /\ Has(lastEvent.before)

\* C1: whenever a confirm is carried out for a chat that has pending
\* events, the chat has no pending events once the confirm handler has
\* finished, whatever became of the single events.
C1_ConfirmLeavesNoSession ==
  (ConfirmCarriedOut /\ lastEvent.done) => ~Has(pendingEvents[lastEvent.chatId])

\* C2: once the handler of a /confirm message for a chat with pending
\* events has finished, every pending event has been taken to the calendar
\* and the chat has no pending events.
C2_ConfirmMessageCommits ==
  (/\ lastEvent.handler = "message"
   /\ lastEvent.branch = "/confirm"
   /\ lastEvent.done
   /\ Has(lastEvent.before))
  => /\ ~Has(pendingEvents[lastEvent.chatId])
     /\ Len(lastEvent.outcomes) = Len(Get(lastEvent.before).events.items)

\* the notice of an event skipped for its disabled calendar
SkipNotice(outcome) ==
  Reply("is currently disabled. Skipping event:", outcome.calendarId, outcome.accountId,
        outcome.title)

IsIn(x, seq) == \E i \in 1..Len(seq) : seq[i] = x

\* C3: a confirm sends no insert for an account and calendar that are
\* disabled when the event is gone through; such an event is skipped with a
\* notice that names its title, and the events after it are gone through
\* all the same.
C3_DisabledCalendarIsSkipped ==
  (ConfirmCarriedOut /\ ~lastEvent.threw) =>
    LET events == Get(lastEvent.before).events.items
        outcomes == lastEvent.outcomes
        disabled(accountId) == DisabledFor(disabledCalendars, lastEvent.chatId, accountId)
    IN /\ \A j \in 1..Len(outcomes) :
            /\ outcomes[j].title = events[j].title
            /\ (outcomes[j].did # "no account"
                  /\ outcomes[j].calendarId \in disabled(outcomes[j].accountId))
               => /\ outcomes[j].did = "skipped"
                  /\ IsIn(SkipNotice(outcomes[j]), lastEvent.replies)
       /\ \A i \in 1..Len(lastEvent.inserts) :
            lastEvent.inserts[i].calendarId \notin disabled(lastEvent.inserts[i].accountId)
       /\ lastEvent.done => Len(outcomes) = Len(events)

\* a confirm has ended after it skipped an event for its disabled calendar
\* and sent the insert of the event after it
C3_SkippedThenInserted ==
  /\ ConfirmCarriedOut
  /\ lastEvent.done
  /\ \E j \in 1..(Len(lastEvent.outcomes) - 1) :
       /\ lastEvent.outcomes[j].did = "skipped"
       /\ IsIn(SkipNotice(lastEvent.outcomes[j]), lastEvent.replies)
       /\ lastEvent.outcomes[j + 1].did = "insert"

----------------------------------------------------------------------------
(* Properties of the handlers of a description and of /edit.               *)

\* the last step ended the handler of a description, or of an /edit, with
\* the answer of parseEventDescription
ExtractionEnded(branch) ==
  /\ lastEvent.handler = "message"
  /\ lastEvent.branch = branch
  /\ lastEvent.done
  /\ Has(lastEvent.extraction)

\* C4: a description whose extraction succeeds replaces the chat's pending
\* events as a whole: the events are the extracted ones, originalText is
\* the description, previousJSONProposal is the answer the events were
\* parsed from and editHistory is empty, whatever was pending before.
C4_DescriptionReplacesSession ==
  (ExtractionEnded("description") /\ ~Get(lastEvent.extraction).threw) =>
    pendingEvents[lastEvent.chatId] =
      Some([events |-> Get(lastEvent.extraction).events,
            originalText |-> lastEvent.text,
            previousJSONProposal |-> Get(lastEvent.extraction).jsonProposal,
            editHistory |-> <<>>])

\* a description has been extracted for a chat whose pending events came
\* from another description and had been edited
C4_ReplacedAnEditedSession ==
  /\ ExtractionEnded("description")
  /\ ~Get(lastEvent.extraction).threw
  /\ Get(lastEvent.extraction).jsonProposal # <<>>
  /\ Has(lastEvent.before)
  /\ Get(lastEvent.before).editHistory # <<>>
  /\ Get(lastEvent.before).originalText # lastEvent.text
  /\ Has(pendingEvents[lastEvent.chatId])

\* C5: when the extraction of an /edit fails, the chat's pending events
\* are as they were before the /edit and the reply is the error message;
\* and whenever the reply is the error message, the pending events are as
\* they were before the /edit.
C5_FailedEditKeepsSession ==
  (/\ ExtractionEnded("/edit")
   /\ \/ Get(lastEvent.extraction).threw
      \/ IsIn(Say("Error parsing updated event description."), lastEvent.replies))
  => /\ pendingEvents[lastEvent.chatId] = lastEvent.before
     /\ lastEvent.replies = <<Say("Error parsing updated event description.")>>

\* C6: when the extraction of a description fails, the chat has no pending
\* events afterwards; and whenever the reply to a description is the error
\* message, the chat has no pending events.
C6_FailedDescriptionLeavesNoSession ==
  (/\ ExtractionEnded("description")
   /\ \/ Get(lastEvent.extraction).threw
      \/ IsIn(Say("Error parsing event description."), lastEvent.replies))
  => ~Has(pendingEvents[lastEvent.chatId])

\* the text is /edit followed by nothing but whitespace
EmptyEdit(text) ==
  /\ StartsWith(text, TxtEdit)
  /\ \A i \in (Len(TxtEdit) + 1)..Len(text) : text[i] \in Whitespace

\* C7: an /edit with nothing, or only whitespace, after the command leaves
\* the chat's pending events as they are, calls no extraction and is
\* answered with the notice to provide the changes, with and without
\* pending events.
C7_EmptyEditChangesNothing ==
  (lastEvent.handler = "message" /\ EmptyEdit(lastEvent.text)) =>
    /\ lastEvent.done
    /\ lastEvent.replies = <<Say("Please provide the update changes")>>
    /\ pendingEvents[lastEvent.chatId] = lastEvent.before
    /\ ~Has(lastEvent.extraction)
    /\ \A k \in Slots : Has(inflight[k]) => Get(inflight[k]).text # lastEvent.text

\* an /edit followed by a space only has been answered for a chat with
\* pending events
C7_WhitespaceEditWithSession ==
  /\ lastEvent.handler = "message"
  /\ lastEvent.text = TxtEdit \o <<" ">>
  /\ Has(lastEvent.before)
  /\ lastEvent.replies = <<Say("Please provide the update changes")>>

\* the notice of a handler that finds no pending events
NothingPendingNotice(handler, branch) ==
  IF handler = "callback_query" THEN Say("No pending events to confirm.")
  ELSE IF branch = "/confirm"
  THEN Say("No pending events. Send an event description first.")
  ELSE Say("No pending events available to edit.")

\* C8: for a chat without pending events, the Confirm button, /confirm and
\* an /edit with changes leave the pending events, the accounts, the
\* disabled calendars and the cache file as they are, call no extraction,
\* send no insert and are answered with the notice of their handler.
C8_NothingPendingIsNoOp ==
  [][(/\ lastEvent'.chatId \in Chats
      /\ ~Has(pendingEvents[lastEvent'.chatId])
      /\ \/ lastEvent'.handler = "callback_query" /\ lastEvent'.branch = "confirm"
         \/ lastEvent'.handler = "message" /\ lastEvent'.branch = "/confirm"
         \/ /\ lastEvent'.handler = "message"
            /\ lastEvent'.branch = "/edit"
            /\ ~EmptyEdit(lastEvent'.text))
     => /\ UNCHANGED <<pendingEvents, oauthAccounts, pendingOAuth, disabledCalendars,
                       credentials, authCache, inflight>>
        /\ lastEvent'.done
        /\ ~lastEvent'.threw
        /\ lastEvent'.inserts = <<>>
        /\ lastEvent'.outcomes = <<>>
        /\ ~Has(lastEvent'.extraction)
        /\ lastEvent'.replies =
             <<NothingPendingNotice(lastEvent'.handler, lastEvent'.branch)>>]_vars

\* the Confirm button has been pressed in a chat with accounts and without
\* pending events
C8_ConfirmWithNothingPending ==
  /\ lastEvent.handler = "callback_query"
  /\ lastEvent.branch = "confirm"
  /\ ~Has(lastEvent.before)
  /\ Has(oauthAccounts[lastEvent.chatId])
  /\ lastEvent.replies = <<Say("No pending events to confirm.")>>

----------------------------------------------------------------------------
(* Properties of the accounts and of resolveCalendarId.                    *)

\* C9: in every chat the accountIds are 1..n in the order the accounts
\* were registered, however the OAuth callbacks interleave with each
\* other, with /clear and with other commands.
C9_AccountIdsCountFromOne ==
  \A chatId \in Chats :
    \A i \in 1..Len(AccountsOf(chatId)) : AccountsOf(chatId)[i].accountId = i

\* a callback has registered the second account of a chat, with a client
\* of its own
C9_SecondAccountRegistered ==
  /\ lastEvent.handler = "oauth2callback"
  /\ lastEvent.branch = "registered"
  /\ Len(AccountsOf(lastEvent.chatId)) = 2
  /\ AccountsOf(lastEvent.chatId)[2].oauth2Client # AccountsOf(lastEvent.chatId)[1].oauth2Client

\* C10: for an account with the calendars c1..cn, the strict resolution of
\* the decimal k, 1 <= k <= n, succeeds with the id of ck, and that of 0
\* and of n+1 fails with the invalid-index message, which names the range
\* 1..n.
C10_StrictIndexResolution ==
  (Has(lastEvent.resolved) /\ Get(lastEvent.resolved).isStrict) =>
    LET call == Get(lastEvent.resolved)
        accounts == AccountsOf(lastEvent.chatId)
    IN \A i \in 1..Len(accounts) :
         accounts[i].accountId = call.accountId =>
           LET calendars == accounts[i].calendars
               n == Len(calendars)
           IN /\ \A k \in 1..n :
                   call.calendarIdentifier = ToStr(k) =>
                     /\ ~call.result.threw
                     /\ call.result.success
                     /\ call.result.realCalendarId = calendars[k].id
              /\ call.calendarIdentifier \in {ToStr(0), ToStr(n + 1)} =>
                   /\ ~call.result.threw
                   /\ ~call.result.success
                   /\ call.result.realCalendarId = <<>>
                   /\ call.result.errorMsg = "Invalid calendar index."
                   /\ call.result.range = n

\* the strict resolution of the index of the last of several calendars of
\* the second account has returned its id
C10_LastIndexResolved ==
  /\ Has(lastEvent.resolved)
  /\ Get(lastEvent.resolved).isStrict
  /\ Get(lastEvent.resolved).accountId = 2
  /\ Len(AccountsOf(lastEvent.chatId)) >= 2
  /\ Len(AccountsOf(lastEvent.chatId)[2].calendars) = MaxCalendars
  /\ Get(lastEvent.resolved).calendarIdentifier = ToStr(MaxCalendars)
  /\ Get(lastEvent.resolved).result.success
  /\ Get(lastEvent.resolved).result.realCalendarId = CalId(MaxCalendars)

\* C11: resolveCalendarId with isStrict false never fails: without accounts
\* for the chat, for an unknown account and for a number outside 1..n of
\* the account's n calendars it returns success with the identifier as it
\* was given, neither an error nor an exception.
C11_LenientNeverFails ==
  (Has(lastEvent.resolved) /\ ~Get(lastEvent.resolved).isStrict) =>
    LET call == Get(lastEvent.resolved)
        accounts == AccountsOf(lastEvent.chatId)
        known == {i \in 1..Len(accounts) : accounts[i].accountId = call.accountId}
        index == ParseInt(call.calendarIdentifier)
    IN /\ ~call.result.threw
       /\ call.result.success
       /\ (\/ ~Has(oauthAccounts[lastEvent.chatId])
           \/ known = {}
           \/ \E i \in known :
                ~index.nan /\ index.val \notin 1..Len(accounts[i].calendars))
          => call.result.realCalendarId = call.calendarIdentifier

----------------------------------------------------------------------------
(* Properties of /disable, /enable, /clear and of the file.                *)

\* the (account id, calendar id) pairs of a chat's disabledCalendars entry
Pairs(entry) ==
  IF ~Has(entry) THEN {}
  ELSE UNION {{<<a, id>> : id \in Get(entry)[a]} : a \in DOMAIN Get(entry)}

\* the last step was /disable or /enable with a calendar that resolved
Toggled(branch) ==
  /\ lastEvent.handler = "message"
  /\ lastEvent.branch = branch
  /\ Has(lastEvent.resolved)
  /\ Get(lastEvent.resolved).result.success

\* the pair a /disable or /enable was about
ToggledPair ==
  <<Get(lastEvent.resolved).accountId, Get(lastEvent.resolved).result.realCalendarId>>

\* C12: /disable of a calendar that is disabled already, and /enable of one
\* that is not disabled, leave the disabled calendars of the chat as they
\* are and are answered without an error; both save the file, which after a
\* successful write holds the chat's disabled calendars.
C12_ToggleIsIdempotent ==
  (\/ Toggled("/disable") /\ ToggledPair \in Pairs(lastEvent.disabledBefore)
   \/ Toggled("/enable") /\ ToggledPair \notin Pairs(lastEvent.disabledBefore))
  => /\ Pairs(disabledCalendars[lastEvent.chatId]) = Pairs(lastEvent.disabledBefore)
     /\ lastEvent.done
     /\ ~lastEvent.threw
     /\ lastEvent.replies =
          <<Reply(IF lastEvent.branch = "/disable" THEN "has been disabled."
                  ELSE "is not disabled.",
                  ToggledPair[2], ToggledPair[1], "")>>
     /\ lastEvent.save \in {"written", "failed"}
     /\ lastEvent.save = "written" =>
          /\ ~Load(authCache).threw
          /\ Pairs(LoadedDisabled(authCache)[lastEvent.chatId])
               = Pairs(disabledCalendars[lastEvent.chatId])

\* /disable of a disabled calendar has been answered and written to the file
C12_DisabledAgain ==
  /\ Toggled("/disable")
  /\ ToggledPair \in Pairs(lastEvent.disabledBefore)
  /\ ToggledPair \in Pairs(disabledCalendars[lastEvent.chatId])
  /\ lastEvent.save = "written"

\* a word that is a decimal integer
IsInteger(word) ==
  /\ word # <<>>
  /\ \A i \in 1..Len(word) : word[i] \in Digits

\* the error text of a /disable or /enable with these words for this chat,
\* "" when the words name an account of the chat and one of its calendars
\* or a calendar id
ErrorOf(words, chatId) ==
  LET accountId == ParseInt(words[1]).val
      accounts == AccountsOf(chatId)
      known == {i \in 1..Len(accounts) : accounts[i].accountId = accountId}
  IN IF Len(words) < 2 THEN "Invalid format."
     ELSE IF ~IsInteger(words[1]) THEN "Invalid account id provided."
     ELSE IF ~Has(oauthAccounts[chatId]) THEN "No authenticated accounts found."
     ELSE IF known = {} THEN "Account not found."
     ELSE IF /\ IsInteger(words[2])
             /\ \E i \in known :
                  ParseInt(words[2]).val \notin 1..Len(accounts[i].calendars)
     THEN "Invalid calendar index."
     ELSE ""

\* the words after the command of a /disable or /enable
WordsOf(text, branch) ==
  Parts(Trim(Slice(text, IF branch = "/disable" THEN Len(TxtDisable) ELSE Len(TxtEnable))))

\* C13: a /disable or /enable with fewer than two arguments, with an
\* account id that is no integer, or with a calendar that fails the strict
\* resolution (no accounts, unknown account, index out of range) leaves the
\* disabled calendars, the accounts and the file as they are and is
\* answered with the error text of its case.
C13_RejectedToggleChangesNothing ==
  [][(/\ lastEvent'.handler = "message"
      /\ lastEvent'.branch \in {"/disable", "/enable"}
      /\ ErrorOf(WordsOf(lastEvent'.text, lastEvent'.branch), lastEvent'.chatId) # "")
     => /\ UNCHANGED <<disabledCalendars, oauthAccounts, authCache>>
        /\ lastEvent'.replies =
             <<Say(ErrorOf(WordsOf(lastEvent'.text, lastEvent'.branch),
                           lastEvent'.chatId))>>]_vars

\* the accounts of a chat without the clients they hold, with the
\* credentials of the clients
Portable(accounts, creds, chatId) ==
  IF ~Has(accounts[chatId]) THEN <<>>
  ELSE [i \in 1..Len(Get(accounts[chatId])) |->
          [accountId |-> Get(accounts[chatId])[i].accountId,
           email |-> Get(accounts[chatId])[i].email,
           calendars |-> Get(accounts[chatId])[i].calendars,
           tokens |-> creds[Get(accounts[chatId])[i].oauth2Client]]]

\* the last step was /clear
Cleared == lastEvent.handler = "message" /\ lastEvent.branch = "/clear"

\* after /clear the chat has no accounts and no disabled calendars, the
\* file has no entry of the chat, and a start on the file gives the chat
\* neither accounts nor disabled calendars
ClearedEverywhere ==
  /\ ~Has(oauthAccounts[lastEvent.chatId])
  /\ ~Has(disabledCalendars[lastEvent.chatId])
  /\ Has(authCache) => ToStr(lastEvent.chatId) \notin DOMAIN Get(authCache).data
  /\ ~Has(LoadedAccounts(authCache)[lastEvent.chatId])
  /\ ~Has(LoadedDisabled(authCache)[lastEvent.chatId])

\* a start on the file gives the other chats with accounts their accounts
\* and their disabled calendars
OthersKept ==
  \A c \in Chats \ {lastEvent.chatId} :
    Has(oauthAccounts[c]) =>
      /\ Portable(LoadedAccounts(authCache), LoadedCredentials(authCache), c)
           = Portable(oauthAccounts, credentials, c)
      /\ Pairs(LoadedDisabled(authCache)[c]) = Pairs(disabledCalendars[c])

C15_ClearLeavesNoSession ==
  Cleared => ~Has(pendingEvents[lastEvent.chatId])

\* C15, amended: /clear deletes the accounts and the disabled calendars of
\* the chat and leaves its pending events as they were.
C15_ClearKeepsSession ==
  Cleared =>
    /\ pendingEvents[lastEvent.chatId] = lastEvent.before
    /\ ~Has(oauthAccounts[lastEvent.chatId])
    /\ ~Has(disabledCalendars[lastEvent.chatId])
    /\ lastEvent.done
    /\ lastEvent.replies = <<Say("All authenticated accounts have been cleared.")>>

\* /clear has answered a chat that had pending events and has them still
C15_ClearedWithSession ==
  /\ Cleared
  /\ lastEvent.done
  /\ Has(lastEvent.before)
  /\ Has(pendingEvents[lastEvent.chatId])

\* what a start of the process on a file written from this state loads
Reloaded == Load(SaveAuthCache(oauthAccounts, disabledCalendars, credentials, TRUE))

\* C16: saving the state and loading the file gives every chat that has
\* accounts the same accounts in the same order (account id, email,
\* calendars, tokens) and the same disabled calendars.
C16_SaveThenLoad ==
  /\ ~Reloaded.threw
  /\ \A c \in Chats :
       Has(oauthAccounts[c]) =>
         /\ Has(Reloaded.accounts[c])
         /\ Portable(Reloaded.accounts, Reloaded.credentials, c)
              = Portable(oauthAccounts, credentials, c)
         /\ Pairs(Reloaded.disabled[c]) = Pairs(disabledCalendars[c])

\* the process has restarted on a file it wrote itself: two chats with
\* accounts, one of them with two calendars disabled that it disabled in the
\* run before
C16_RestartedOnOwnFile ==
  /\ lastEvent.handler = "loadAuthCache"
  /\ ~lastEvent.threw
  /\ \A c \in Chats : Has(oauthAccounts[c])
  /\ \E c \in Chats : Cardinality(Pairs(disabledCalendars[c])) >= 2
  /\ Pairs(disabledCalendars[2]) # {}
  /\ authCache = SaveAuthCache(oauthAccounts, disabledCalendars, credentials, TRUE)

\* C17: when loading the file fails, at the parse or at the entry of a chat
\* after the entries of other chats have been loaded, the process starts
\* with no accounts, no disabled calendars and no credentials at all.
C17_FailedLoadStartsEmpty ==
  (lastEvent.handler = "loadAuthCache" /\ lastEvent.threw) =>
    /\ oauthAccounts = NothingLoaded.accounts
    /\ disabledCalendars = NothingLoaded.disabled
    /\ credentials = NothingLoaded.credentials

\* C18: a /disable, /enable or /clear whose write of the file failed has
\* run to its end without an exception, has changed the disabled calendars
\* or the accounts in memory as it would have with the file written, and
\* has sent its usual reply and nothing else.
C18_FailedWriteIsSwallowed ==
  lastEvent.save = "failed" =>
    /\ lastEvent.handler = "message"
    /\ lastEvent.done
    /\ ~lastEvent.threw
    /\ \/ /\ Cleared
          /\ ~Has(oauthAccounts[lastEvent.chatId])
          /\ ~Has(disabledCalendars[lastEvent.chatId])
          /\ lastEvent.replies = <<Say("All authenticated accounts have been cleared.")>>
       \/ /\ Toggled("/disable")
          /\ Pairs(disabledCalendars[lastEvent.chatId])
               = Pairs(lastEvent.disabledBefore) \cup {ToggledPair}
          /\ lastEvent.replies =
               <<Reply("has been disabled.", ToggledPair[2], ToggledPair[1], "")>>
       \/ /\ Toggled("/enable")
          /\ Pairs(disabledCalendars[lastEvent.chatId])
               = Pairs(lastEvent.disabledBefore) \ {ToggledPair}
          /\ lastEvent.replies =
               <<Reply(IF ToggledPair \in Pairs(lastEvent.disabledBefore)
                       THEN "has been enabled." ELSE "is not disabled.",
                       ToggledPair[2], ToggledPair[1], "")>>

\* a /disable has disabled a calendar in memory and answered, and the file,
\* whose write failed, does not have the calendar disabled
C18_DisabledInMemoryOnly ==
  /\ lastEvent.save = "failed"
  /\ Toggled("/disable")
  /\ ToggledPair \in Pairs(disabledCalendars[lastEvent.chatId])
  /\ ToggledPair \notin Pairs(LoadedDisabled(authCache)[lastEvent.chatId])
  /\ lastEvent.done

----------------------------------------------------------------------------
(* Properties of the extraction.                                           *)

\* the backend returns a text that is not empty
Answered(answer) == ~answer.threw /\ answer.content # <<>>

\* C19: parseEventDescription calls the backends in the order of the list,
\* each once, up to the first that returns a text that is not empty; the
\* result, events or failure, is made of that text and no later backend is
\* called.  With no such backend all are called and the extraction fails.
C19_FirstAnswerIsUsed ==
  lastEvent.handler = "parseEventDescription" =>
    LET answers == lastEvent.answers
        result == Get(lastEvent.extraction)
        good == {i \in 1..NumModels : Answered(answers[i])}
        first == CHOOSE i \in good : \A j \in good : i <= j
    IN IF good = {}
       THEN /\ result.threw
            /\ result.error = "AllModelsFailed"
            /\ result.calls = [k \in 1..NumModels |-> k]
       ELSE LET json == ExtractJSON(answers[first].content)
            IN /\ result.calls = [k \in 1..first |-> k]
               /\ result.error # "AllModelsFailed"
               /\ result.threw = (json.threw \/ JSONParse(json.text).threw)
               /\ ~result.threw =>
                    /\ result.jsonProposal = json.text
                    /\ result.events = JSONParse(json.text).value

\* the first backend has failed, the second has returned nothing, the third
\* a text, a later one another text, and the result is the third's
C19_ThirdBackendAnswered ==
  /\ lastEvent.handler = "parseEventDescription"
  /\ lastEvent.answers[1].threw
  /\ lastEvent.answers[2] = Returns(<<>>)
  /\ lastEvent.answers[3] = Returns(RespArray2)
  /\ lastEvent.answers[4] = Returns(RespIndex)
  /\ Get(lastEvent.extraction).calls = <<1, 2, 3>>
  /\ Len(Get(lastEvent.extraction).events.items) = 2

\* the text has a "]" and no "]" after a "["
StrayClose(text) ==
  /\ \E j \in 1..Len(text) : text[j] = "]"
  /\ \A i, j \in 1..Len(text) : (text[i] = "[" /\ text[j] = "]") => j < i

\* the positions of a "{" with a "}" after it, and of a "}" with a "{"
\* before it
Opening(text) ==
  {i \in 1..Len(text) : text[i] = "{" /\ \E j \in (i + 1)..Len(text) : text[j] = "}"}
Closing(text) ==
  {j \in 1..Len(text) : text[j] = "}" /\ \E i \in 1..(j - 1) : text[i] = "{"}

\* C20 as stated: extractJSON fails on every text that has a "]" and no "]"
\* after a "[".
C20_StrayCloseFails ==
  (lastEvent.handler = "extractJSON" /\ StrayClose(lastEvent.text)) =>
    Get(lastEvent.json).threw

\* C20, amended: on a text that has a "]" and no "]" after a "[",
\* extractJSON fails when the text has no "{" with a "}" after it, and
\* otherwise returns the text from the first "{" to the last "}".
C20_StrayCloseFallsBackToBraces ==
  (lastEvent.handler = "extractJSON" /\ StrayClose(lastEvent.text)) =>
    LET text == lastEvent.text
        from == CHOOSE i \in Opening(text) : \A k \in Opening(text) : i <= k
        to == CHOOSE j \in Closing(text) : \A k \in Closing(text) : k <= j
    IN IF Opening(text) = {} THEN Get(lastEvent.json).threw
       ELSE /\ ~Get(lastEvent.json).threw
            /\ Get(lastEvent.json).text = SubSeq(text, from, to)

\* extractJSON has returned the braces of a text with a "]" before its "["
C20_BracesAfterStrayClose ==
  /\ lastEvent.handler = "extractJSON"
  /\ StrayClose(lastEvent.text)
  /\ \E i \in 1..Len(lastEvent.text) : lastEvent.text[i] = "["
  /\ ~Get(lastEvent.json).threw
  /\ Get(lastEvent.json).text = <<"{", "}">>

\* the positions of a character in a text
PositionsOf(text, ch) == {i \in 1..Len(text) : text[i] = ch}
Least(set) == CHOOSE i \in set : \A k \in set : i <= k
Greatest(set) == CHOOSE i \in set : \A k \in set : k <= i

\* the last close lies after the first open
Spans(text, open, close) ==
  /\ PositionsOf(text, open) # {}
  /\ PositionsOf(text, close) # {}
  /\ Greatest(PositionsOf(text, close)) > Least(PositionsOf(text, open))

\* the text from the first open to the last close
Span(text, open, close) ==
  SubSeq(text, Least(PositionsOf(text, open)), Greatest(PositionsOf(text, close)))

\* C21: extractJSON returns the text from the first "[" to the last "]" when
\* the last "]" lies after the first "["; otherwise the text from the first
\* "{" to the last "}" when the last "}" lies after the first "{"; otherwise
\* it fails.
C21_OutermostPair ==
  lastEvent.handler = "extractJSON" =>
    LET text == lastEvent.text
        json == Get(lastEvent.json)
    IN IF Spans(text, "[", "]")
       THEN ~json.threw /\ json.text = Span(text, "[", "]")
       ELSE IF Spans(text, "{", "}")
       THEN ~json.threw /\ json.text = Span(text, "{", "}")
       ELSE json.threw

\* extractJSON has returned the brackets that lie inside a pair of braces
C21_BracketsInsideBraces ==
  /\ lastEvent.handler = "extractJSON"
  /\ lastEvent.text = <<"{", "[", "]", "}">>
  /\ ~Get(lastEvent.json).threw
  /\ Get(lastEvent.json).text = <<"[", "]">>

----------------------------------------------------------------------------
(* Properties of the commit of the pending events.                         *)

\* the pending events a confirm found, one or many
CandidatesOf(pending) == Get(pending).events.items

\* the message a confirm sends for an event it has gone through
ReportOf(outcome, reply) ==
  CASE outcome.did = "no account" -> reply = Say("No authenticated Google account found.")
    [] outcome.did = "skipped" -> reply = SkipNotice(outcome)
    [] outcome.did = "insert" ->
         reply \in {Reply("Event added to calendar", outcome.calendarId, outcome.accountId,
                          outcome.title),
                    Say("There was an error adding the event.")}

\* C22: a confirm that has finished has gone through every pending event
\* once, in the order of the list, and has sent one message for each of
\* them, followed by the closing message.
C22_EveryCandidateOnce ==
  (ConfirmCarriedOut /\ lastEvent.done) =>
    LET events == CandidatesOf(lastEvent.before)
        outcomes == lastEvent.outcomes
    IN /\ ~lastEvent.threw
       /\ Len(outcomes) = Len(events)
       /\ \A j \in 1..Len(outcomes) : outcomes[j].title = events[j].title
       /\ Len(lastEvent.replies) = Len(events) + 1
       /\ \A j \in 1..Len(outcomes) : ReportOf(outcomes[j], lastEvent.replies[j])
       /\ lastEvent.replies[Len(lastEvent.replies)]
            = Say("Events confirmed and added to your calendar.")

\* the account id a confirm should take an event to, 0 with no account
ExpectedAccount(chatId, eventData) ==
  LET accounts == AccountsOf(chatId)
  IN IF accounts = <<>> THEN 0
     ELSE IF /\ eventData.accountId # 0
             /\ \E i \in 1..Len(accounts) : accounts[i].accountId = eventData.accountId
     THEN eventData.accountId
     ELSE accounts[1].accountId

\* C23: a confirm takes each event to the account the event names when the
\* chat has that account, otherwise to the chat's first account, and with
\* no account it reports so and sends no insert; the check for a disabled
\* calendar and the insert are made with that account.
C23_TargetAccount ==
  (ConfirmCarriedOut /\ ~lastEvent.threw) =>
    LET chatId == lastEvent.chatId
        events == CandidatesOf(lastEvent.before)
        outcomes == lastEvent.outcomes
        accounts == AccountsOf(chatId)
    IN /\ \A j \in 1..Len(outcomes) :
            LET expected == ExpectedAccount(chatId, events[j])
            IN IF expected = 0 THEN outcomes[j].did = "no account"
               ELSE /\ outcomes[j].did \in {"skipped", "insert"}
                    /\ outcomes[j].accountId = expected
                    /\ outcomes[j].did = "skipped" <=>
                         outcomes[j].calendarId
                           \in DisabledFor(disabledCalendars, chatId, expected)
       /\ \A i \in 1..Len(lastEvent.inserts) :
            LET insert == lastEvent.inserts[i]
                last == Len(outcomes)
            IN /\ outcomes[last].did = "insert"
               /\ insert.title = events[last].title
               /\ insert.accountId = ExpectedAccount(chatId, events[last])
               /\ \E a \in 1..Len(accounts) :
                    /\ accounts[a].accountId = insert.accountId
                    /\ accounts[a].oauth2Client = insert.oauth2Client

\* a confirm has sent the insert of an event that names an account the chat
\* does not have to the chat's first account, after an event that names the
\* second account of two
C23_FellBackToFirstAccount ==
  /\ ConfirmCarriedOut
  /\ Len(lastEvent.inserts) = 1
  /\ CandidatesOf(lastEvent.before)[Len(lastEvent.outcomes)].accountId = 2
  /\ Len(AccountsOf(lastEvent.chatId)) = 1
  /\ lastEvent.inserts[1].accountId = 1

----------------------------------------------------------------------------
(* Properties of the dispatch of messages.                                 *)

CommandWords ==
  {TxtDisable, TxtEnable, TxtStart, TxtAuth, TxtConfirm, TxtEdit, TxtClear, TxtCalendars}

\* a text with a leading "/" that begins with no command word
NoCommand(text) ==
  /\ StartsWith(text, <<"/">>)
  /\ \A word \in CommandWords : ~StartsWith(text, word)

\* C24: a message with a leading "/" that is no command leaves the pending
\* events, the accounts, the disabled calendars, the pending authorizations
\* and the file as they are, starts no extraction and no insert and is
\* answered with the notice of an unrecognized command; and a chat without
\* pending events gets pending events only from the handler of a message
\* without a leading "/".
C24_UnrecognizedIsNoOp ==
  [][/\ (lastEvent'.handler = "message" /\ NoCommand(lastEvent'.text))
        => /\ UNCHANGED <<pendingEvents, oauthAccounts, pendingOAuth, disabledCalendars,
                          credentials, authCache, inflight>>
           /\ lastEvent'.done
           /\ ~lastEvent'.threw
           /\ ~Has(lastEvent'.extraction)
           /\ lastEvent'.inserts = <<>>
           /\ lastEvent'.replies = <<Say("Unrecognized command.")>>
     /\ \A c \in Chats :
          (~Has(pendingEvents[c]) /\ Has(pendingEvents'[c]))
          => /\ lastEvent'.handler = "message"
             /\ lastEvent'.chatId = c
             /\ lastEvent'.text # <<>>
             /\ ~StartsWith(lastEvent'.text, <<"/">>)]_vars

\* a chat with pending events has been told that its command is not
\* recognized and has its pending events still
C24_UnrecognizedWithSession ==
  /\ lastEvent.handler = "message"
  /\ NoCommand(lastEvent.text)
  /\ lastEvent.replies = <<Say("Unrecognized command.")>>
  /\ Has(lastEvent.replaced)
  /\ pendingEvents[lastEvent.chatId] = lastEvent.replaced

\* the handlers of updates and of authorization callbacks
Handlers == {"message", "callback_query", "oauth2callback"}

\* C25: a step of a handler of one chat's message, button or authorization
\* callback leaves the pending events, the accounts and the disabled
\* calendars of every other chat as they are.
C25_ChatsAreIsolated ==
  [][\A other \in Chats :
       (lastEvent'.handler \in Handlers /\ lastEvent'.chatId # other)
       => /\ pendingEvents'[other] = pendingEvents[other]
          /\ oauthAccounts'[other] = oauthAccounts[other]
          /\ disabledCalendars'[other] = disabledCalendars[other]]_vars

\* the second chat has connected an account while the first has pending
\* events, an account and a disabled calendar
C25_SecondChatRegistered ==
  /\ lastEvent.handler = "oauth2callback"
  /\ lastEvent.chatId = 2
  /\ lastEvent.done
  /\ Len(AccountsOf(2)) = 1
  /\ Len(AccountsOf(1)) = 1
  /\ Has(pendingEvents[1])
  /\ Pairs(disabledCalendars[1]) # {}

----------------------------------------------------------------------------
(* Properties of the history of a proposal.                                *)

\* the text is the previous text, or begins with it and ends with the part,
\* a line break between the two
Extends(text, previous, part) ==
  /\ Len(text) >= Len(part)
  /\ SubSeq(text, Len(text) - Len(part) + 1, Len(text)) = part
  /\ IF previous = <<>> THEN text = part
     ELSE /\ Len(text) = Len(previous) + 1 + Len(part)
          /\ SubSeq(text, 1, Len(previous)) = previous

\* C26: with a chat's updates handled one after the other, the pending
\* events of a chat change in place only at the end of an /edit handler:
\* originalText stays, the events are the newly extracted ones, and
\* editHistory and previousJSONProposal are what they were with the changes
\* of the /edit and the newly extracted JSON appended; and every /edit whose
\* extraction succeeds changes them so.
C26_EditsAppend ==
  [][\A c \in Chats :
       LET old == Get(pendingEvents[c])
           new == Get(pendingEvents'[c])
           result == Get(lastEvent'.extraction)
           edited == /\ lastEvent'.handler = "message"
                     /\ lastEvent'.branch = "/edit"
                     /\ lastEvent'.chatId = c
                     /\ lastEvent'.done
                     /\ Has(lastEvent'.extraction)
                     /\ ~result.threw
       IN /\ (/\ Has(pendingEvents[c])
              /\ Has(pendingEvents'[c])
              /\ pendingEvents'[c] # pendingEvents[c]) => edited
          /\ edited =>
               /\ Has(pendingEvents[c])
               /\ Has(pendingEvents'[c])
               /\ new.originalText = old.originalText
               /\ new.events = result.events
               /\ Extends(new.editHistory, old.editHistory,
                          Trim(Slice(lastEvent'.text, Len(TxtEdit))))
               /\ Extends(new.previousJSONProposal, old.previousJSONProposal,
                          result.jsonProposal)]_vars

\* a second /edit has extended the history of the first
C26_SecondEditAppended ==
  /\ lastEvent.handler = "message"
  /\ lastEvent.branch = "/edit"
  /\ lastEvent.done
  /\ Has(lastEvent.extraction)
  /\ ~Get(lastEvent.extraction).threw
  /\ Has(lastEvent.before)
  /\ Get(lastEvent.before).editHistory # <<>>
  /\ Has(pendingEvents[lastEvent.chatId])
  /\ Len(Get(pendingEvents[lastEvent.chatId]).editHistory)
       > Len(Get(lastEvent.before).editHistory)

\* the last step ended an /edit handler whose extraction succeeded
EditSucceeded ==
  /\ lastEvent.handler = "message"
  /\ lastEvent.branch = "/edit"
  /\ lastEvent.done
  /\ Has(lastEvent.extraction)
  /\ ~Get(lastEvent.extraction).threw

\* C27: with handlers of one chat overlapping, an /edit whose extraction
\* succeeds stores pending events made of what it read when it started and
\* of its own changes and JSON, whatever another handler has stored in the
\* meantime: the other handler's changes, or its newer description, are
\* lost.
C27_LastWriterWins ==
  EditSucceeded =>
    LET read == Get(lastEvent.pending)
        result == Get(lastEvent.extraction)
        stored == Get(pendingEvents[lastEvent.chatId])
    IN /\ Has(pendingEvents[lastEvent.chatId])
       /\ stored.events = result.events
       /\ stored.originalText = read.originalText
       /\ Extends(stored.editHistory, read.editHistory,
                  Trim(Slice(lastEvent.text, Len(TxtEdit))))
       /\ Extends(stored.previousJSONProposal, read.previousJSONProposal,
                  result.jsonProposal)

\* two /edit handlers have overlapped and both extractions have succeeded:
\* the second to end has replaced the pending events that held the changes
\* of the first, and the history holds its own changes only
C27_DeltaLost ==
  /\ EditSucceeded
  /\ Has(lastEvent.replaced)
  /\ Get(lastEvent.replaced).editHistory = <<"d">>
  /\ Get(pendingEvents[lastEvent.chatId]).editHistory = <<"e">>

----------------------------------------------------------------------------
(* Properties of the state kept across restarts.                           *)

\* C28: when a handler has written the file, the file holds an entry for
\* every chat that has accounts and for no other, and a start on it gives
\* every chat, not only the handler's, the accounts and the disabled
\* calendars it has in memory.
C28_WriteIsFullSnapshot ==
  lastEvent.save = "written" =>
    /\ Has(authCache)
    /\ ~Load(authCache).threw
    /\ DOMAIN Get(authCache).data = {ToStr(c) : c \in {c \in Chats : Has(oauthAccounts[c])}}
    /\ \A c \in Chats :
         /\ Portable(LoadedAccounts(authCache), LoadedCredentials(authCache), c)
              = Portable(oauthAccounts, credentials, c)
         /\ Pairs(LoadedDisabled(authCache)[c]) = Pairs(disabledCalendars[c])

\* the /disable of the second chat has written the file, and the file
\* holds a calendar the first chat has disabled in this run
C28_WroteForBothChats ==
  /\ lastEvent.save = "written"
  /\ lastEvent.chatId = 2
  /\ Toggled("/disable")
  /\ <<1, Primary>> \in Pairs(disabledCalendars[1])
  /\ <<1, Primary>> \in Pairs(LoadedDisabled(authCache)[1])

\* C29: from a start without a file, every account id that has an entry in
\* a chat's disabled calendars is the id of an account the chat has.
C29_DisabledEntriesHaveAccounts ==
  \A c \in Chats :
    Has(disabledCalendars[c]) =>
      \A a \in DOMAIN Get(disabledCalendars[c]) :
        \E i \in 1..Len(AccountsOf(c)) : AccountsOf(c)[i].accountId = a

\* a chat that connected two accounts has disabled a calendar of the first
C29_DisabledWithTwoAccounts ==
  /\ Toggled("/disable")
  /\ Len(AccountsOf(lastEvent.chatId)) = 2
  /\ DOMAIN Get(disabledCalendars[lastEvent.chatId]) = {1}
  /\ lastEvent.save = "written"

----------------------------------------------------------------------------
(* Properties of the prompt.                                               *)

\* the handlers suspended in parseEventDescription
Extracting == {k \in Slots : Has(inflight[k]) /\ Has(Get(inflight[k]).prompt)}

\* the calendars listed in the prompt of a suspended handler, each with the
\* id of its account
ListedIn(k) ==
  LET info == Get(Get(inflight[k]).prompt).accountInfo
  IN {<<info[i].accountId, info[i].id>> :
        i \in {i \in 1..Len(info) : info[i].kind = "calendar"}}

\* C30: the accounts and calendars listed in the prompt of an extraction,
\* of a description or of an /edit, hold no calendar that is disabled for
\* its account in the chat, and hold every other calendar of the chat's
\* accounts.
C30_PromptListsEnabledOnly ==
  \A k \in Extracting :
    LET chatId == Get(inflight[k]).chatId
        accounts == AccountsOf(chatId)
    IN ListedIn(k) =
         {pair \in UNION {{<<accounts[i].accountId, accounts[i].calendars[j].id>> :
                             j \in 1..Len(accounts[i].calendars)} :
                          i \in 1..Len(accounts)} :
            pair \notin Pairs(disabledCalendars[chatId])}

\* an /edit is suspended in an extraction whose prompt lists the second
\* calendar of the account and not the first, which is disabled
C30_EditPromptWithoutDisabled ==
  \E k \in Extracting :
    /\ Get(inflight[k]).branch = "/edit"
    /\ <<1, CalA>> \in Pairs(disabledCalendars[Get(inflight[k]).chatId])
    /\ <<1, CalA>> \notin ListedIn(k)
    /\ <<1, CalB>> \in ListedIn(k)

----------------------------------------------------------------------------
(* Properties of the calendar a confirm takes an event to.                 *)

\* the calendars of the chat's account with this id
RosterOfAccount(chatId, accountId) ==
  LET accounts == AccountsOf(chatId)
      at == {i \in 1..Len(accounts) : accounts[i].accountId = accountId}
  IN IF at = {} THEN <<>> ELSE accounts[CHOOSE i \in at : TRUE].calendars

\* C31: a confirm takes an event whose calendar is the decimal number k of a
\* calendar of the target account to the k-th calendar of that account:
\* that id is the one checked for being disabled and the one of the insert.
C31_IndexIsResolvedOnConfirm ==
  (ConfirmCarriedOut /\ ~lastEvent.threw) =>
    LET events == CandidatesOf(lastEvent.before)
        outcomes == lastEvent.outcomes
    IN \A j \in 1..Len(outcomes) :
         LET roster == RosterOfAccount(lastEvent.chatId, outcomes[j].accountId)
             k == ParseInt(events[j].calendar)
         IN (/\ outcomes[j].did # "no account"
             /\ IsInteger(events[j].calendar)
             /\ k.val \in 1..Len(roster))
            => outcomes[j].calendarId = roster[k.val].id

\* C32: the events of a chat's pending events are always a list, of one
\* event when the answer of the backend was a single object.
C32_CandidatesAreAList ==
  \A c \in Chats :
    Has(pendingEvents[c]) => Get(pendingEvents[c]).events.kind = "array"

\* a word that is a decimal integer with or without a sign
IsSignedInteger(word) ==
  \/ IsInteger(word)
  \/ word # <<>> /\ word[1] = "-" /\ IsInteger(Tail(word))

\* C33: for an account of the chat, resolveCalendarId returns an identifier
\* that is not a decimal integer as it was given, strict or not, also one
\* that begins with digits.
C33_NonIntegerIsReturnedUnchanged ==
  Has(lastEvent.resolved) =>
    LET call == Get(lastEvent.resolved)
        accounts == AccountsOf(lastEvent.chatId)
    IN (/\ \E i \in 1..Len(accounts) : accounts[i].accountId = call.accountId
        /\ ~IsSignedInteger(call.calendarIdentifier))
       => /\ ~call.result.threw
          /\ call.result.success
          /\ call.result.realCalendarId = call.calendarIdentifier

----------------------------------------------------------------------------
(* Properties of the listings of accounts and calendars.                   *)

\* the calendar lines of a listing
CalendarLinesOf(listing) ==
  {listing[i] : i \in {j \in 1..Len(listing) : listing[j].kind = "calendar"}}

\* a listing of the chat's accounts shows every calendar with its place in
\* the roster of its account, which resolves strictly to the id shown; it
\* leaves the disabled calendars out when asked for the enabled ones, and
\* otherwise shows every calendar and marks the disabled ones when asked to
Faithful(listing, chatId, showDisabled, enabledOnly) ==
  LET lines == CalendarLinesOf(listing)
      off(line) == line.id \in DisabledFor(disabledCalendars, chatId, line.accountId)
  IN /\ \A line \in lines :
          LET roster == RosterOfAccount(chatId, line.accountId)
              result == ResolveCalendarId(chatId, line.accountId, ToStr(line.index), TRUE)
          IN /\ line.index \in 1..Len(roster)
             /\ roster[line.index].id = line.id
             /\ ~result.threw /\ result.success
             /\ result.realCalendarId = line.id
             /\ enabledOnly => ~off(line)
             /\ line.marked = (showDisabled /\ off(line))
     /\ \A i \in 1..Len(AccountsOf(chatId)) :
          LET account == AccountsOf(chatId)[i]
          IN \A k \in 1..Len(account.calendars) :
               (~enabledOnly
                  \/ account.calendars[k].id
                       \notin DisabledFor(disabledCalendars, chatId, account.accountId))
               => \E line \in lines : line.accountId = account.accountId /\ line.index = k

\* the listing of an answer to /calendars
Listed == lastEvent.branch = "/calendars" /\ lastEvent.replies[1].body # <<>>
ListedEnabledOnly == lastEvent.replies[1].msg = "Enabled Calendars:"

\* C34: every listing, that of /calendars, that of /calendars enabled and
\* that of the prompt, shows next to a calendar its place in the roster of
\* its account, so that the strict resolution of the number shown returns
\* the id shown; the listing of the enabled calendars shows no disabled one,
\* and the full listing of /calendars marks the disabled ones and no other.
C34_ListingShowsRosterIndex ==
  /\ Listed => Faithful(lastEvent.replies[1].body, lastEvent.chatId, TRUE,
                        ListedEnabledOnly)
  /\ \A chatId \in Chats :
       Faithful(Prompt(<<>>, chatId, Absent).accountInfo, chatId, FALSE, TRUE)

\* /calendars enabled has listed the second calendar of an account, the
\* first being disabled, and a second account
C34_ListedBehindDisabled ==
  /\ Listed
  /\ ListedEnabledOnly
  /\ Len(AccountsOf(lastEvent.chatId)) = 2
  /\ \E line \in CalendarLinesOf(lastEvent.replies[1].body) :
       /\ line.accountId = 1
       /\ line.index = 2
       /\ RosterOfAccount(lastEvent.chatId, 1)[1].id
            \in DisabledFor(disabledCalendars, lastEvent.chatId, 1)

----------------------------------------------------------------------------
(* Properties of the prompt of a new description.                          *)

\* the handlers of a description suspended in their extraction
Describing ==
  {k \in Extracting : Get(inflight[k]).branch = "description"}

\* C35: the prompt of the extraction of a description carries no previous
\* JSON proposal, whether or not the chat had pending events when the
\* description came: not that of the pending events it replaces, nor any.
C35_DescriptionPromptHasNoTrace ==
  \A k \in Describing :
    Get(Get(inflight[k]).prompt).previousProposalText = <<>>

\* a description that came while the chat had pending events with a JSON
\* proposal is suspended in its extraction
C35_DescribedOverProposal ==
  \E k \in Describing :
    /\ Has(Get(inflight[k]).before)
    /\ Get(Get(inflight[k]).before).previousJSONProposal # <<>>
    /\ ~Has(pendingEvents[Get(inflight[k]).chatId])

----------------------------------------------------------------------------
(* Properties of overlapping handlers.                                     *)

\* C36: no two accounts share an OAuth client, of one chat or of two: each
\* account was registered for a pending authorization of its own, also when
\* two callbacks with the same state are in flight together.
C36_NoSharedClient ==
  \A c1, c2 \in Chats :
    \A i \in 1..Len(AccountsOf(c1)), j \in 1..Len(AccountsOf(c2)) :
      (c1 # c2 \/ i # j)
        => AccountsOf(c1)[i].oauth2Client # AccountsOf(c2)[j].oauth2Client

\* an /edit has ended
EditEnded == lastEvent.handler = "message" /\ lastEvent.branch = "/edit" /\ lastEvent.done

\* C37: an /edit creates no pending events: when the chat had none just
\* before the /edit handler ended, a confirm having deleted them while the
\* handler was suspended, it has none after.
C37_EditCreatesNoSession ==
  (EditEnded /\ ~Has(lastEvent.replaced)) => ~Has(pendingEvents[lastEvent.chatId])

\* the confirm handlers of a chat suspended at an insert
Confirming(chatId) ==
  {k \in Slots : /\ Has(inflight[k])
                 /\ Get(inflight[k]).branch = "confirm"
                 /\ Get(inflight[k]).chatId = chatId
                 /\ Has(Get(inflight[k]).insert)}

\* C38: no two confirm handlers of a chat have sent the same event of the
\* same pending events to the calendar.
C38_DispatchedOnce ==
  \A c \in Chats :
    \A k1, k2 \in Confirming(c) :
      (/\ k1 # k2
       /\ Get(inflight[k1]).pending = Get(inflight[k2]).pending)
      => Get(inflight[k1]).index # Get(inflight[k2]).index

----------------------------------------------------------------------------
(* Properties of the ids among the disabled calendars.                     *)

\* the ids of the calendars of the chat's account with this id
RosterIds(chatId, accountId) ==
  LET roster == RosterOfAccount(chatId, accountId)
  IN {roster[k].id : k \in 1..Len(roster)}

\* C39 as stated: every id among the disabled calendars of an account of a
\* chat is the id of a calendar of that account.
C39_DisabledIdsAreInRoster ==
  \A c \in Chats :
    \A pair \in Pairs(disabledCalendars[c]) : pair[2] \in RosterIds(c, pair[1])

\* C39: every id among the disabled calendars of an account of a chat is
\* the id of a calendar of that account, which /disable resolved from the
\* number of the calendar, or an identifier without a leading number, kept
\* as the user gave it whether or not the account has such a calendar; the
\* number of a calendar is never stored.
C39_DisabledIdsAreResolved ==
  \A c \in Chats :
    \A pair \in Pairs(disabledCalendars[c]) :
      \/ pair[2] \in RosterIds(c, pair[1])
      \/ ParseInt(pair[2]).nan

\* /disable has stored the id of the first calendar, given by its number,
\* next to "primary", which the account's roster does not have
C39_IndexStoredAsId ==
  /\ Toggled("/disable")
  /\ Get(lastEvent.resolved).calendarIdentifier = ToStr(1)
  /\ ToggledPair[2] \in RosterIds(lastEvent.chatId, ToggledPair[1])
  /\ ToggledPair \in Pairs(disabledCalendars[lastEvent.chatId])
  /\ <<ToggledPair[1], Primary>> \in Pairs(disabledCalendars[lastEvent.chatId])
  /\ Primary \notin RosterIds(lastEvent.chatId, ToggledPair[1])

====
